---- MODULE Spec2Model ----
(***************************************************************************)
(* InlineCompletionsModel (vs/editor/contrib/inlineCompletions/browser/    *)
(* inlineCompletionsModel.ts): the session state machine that reconciles   *)
(* provider fetches, the suggest widget, and accept / partial accept.      *)
(*                                                                         *)
(* The document is one line of text: `doc` before the primary cursor and   *)
(* `behind` after it.  A candidate replaces the whole line with its text;  *)
(* its semantic id is its text.  JavaScript runs each handler to its next  *)
(* await without interleaving: the synchronous part of accept() and of     *)
(* _acceptNext() is a chain of steps driven by run.pc, and every other     *)
(* action waits for run.pc = "idle".                                       *)
(***************************************************************************)
EXTENDS Integers, Sequences, FiniteSets, TLC

VARIABLES
    doc,            \* textModel: the content of the line before the primary cursor
    behind,         \* textModel: the content of the line after the primary cursor
    cursorLine,     \* _selections: the line of the primary cursor
    cursorPosition, \* the line of the value that _filteredInlineCompletionItems
                    \* has read from _cursorPosition, while its result is cached
    version,        \* textModelVersionId
    isActive,       \* _isActive
    enabled,        \* _enabled
    suggestItem,    \* selectedSuggestItem: its text, <<>> when undefined
    selectedId,     \* _selectedInlineCompletionId: <<>> when undefined
    lastItem,       \* lastItem of the autorun of lines 67-80, by its semantic id:
                    \* <<>> when undefined
    batch,          \* _source.inlineCompletions
    swBatch,        \* _source.suggestWidgetInlineCompletions
    ops,            \* provider calls not yet resolved (at most one not cancelled),
                    \* each with the next()/previous() calls that await it
    refCount,       \* reference count of every batch object
    freed,          \* how many times each batch object was disposed
    deps,           \* the observables _fetchInlineCompletions read in its last run
    accepting,      \* _isAcceptingPartially
    run,            \* the handler that is executing synchronous code
    cmds,           \* post-accept commands that are executing
    textModel,      \* the lines of the editor's document, for several cursors
    selections,     \* the editor's cursors, the primary first
    completion,     \* the selected candidate as a text edit, with its additional edits
    edited,         \* whether accept() has applied the candidate's edits
    ghostText,      \* the text of the first part of the primary ghost text
    wordDefinition, \* the characters the language's word pattern matches runs of
    committed,      \* the text that partial accepts have committed
    instances,      \* TerminalEditorService.instances
    activeInstanceIndex \* TerminalEditorService._activeInstanceIndex, 0-based

sessionVars == <<doc, behind, cursorLine, cursorPosition, version, isActive, enabled, suggestItem, selectedId, lastItem, batch,
                 swBatch, ops, refCount, freed, deps, accepting, run, cmds>>

editorVars == <<textModel, selections, completion, edited>>

wordVars == <<ghostText, wordDefinition, committed>>

terminalVars == <<instances, activeInstanceIndex>>

vars == <<sessionVars, editorVars, wordVars, terminalVars>>

----------------------------------------------------------------------------
(* Bounds *)

MaxVersion == 2     \* text changes in one behaviour
MaxPending == 2     \* provider calls outstanding at once
MaxCmds == 1        \* post-accept commands executing at once
MaxDocLen == 1      \* characters a user edit may leave in the line
MaxNavs == 2        \* next()/previous() calls awaiting their fetch at once
MaxCursors == 3     \* cursors of the editor
MaxGhostLen == 4    \* characters of an enumerated ghost text

----------------------------------------------------------------------------
(* Values *)

Chars == {"a", "b"}

\* The candidates the provider can return.
\* text is the insertion text, cmd whether a command comes with it, fs whether
\* it is forward-stable, snippet whether it has snippetInfo, and hook whether
\* its provider has handlePartialAccept.
CandA == [text |-> <<"a">>, cmd |-> FALSE, fs |-> FALSE, snippet |-> FALSE,
          filterText |-> <<"a">>, hook |-> TRUE, additionalTextEdits |-> <<>>]
CandB == [text |-> <<"a", "b">>, cmd |-> TRUE, fs |-> FALSE, snippet |-> FALSE,
          filterText |-> <<"a", "b">>, hook |-> FALSE, additionalTextEdits |-> <<>>]

ProviderLists == {<<>>, <<CandA, CandB>>, <<CandB, CandA>>}

\* The length of the longest insertion text.
LongestText == Len(CandB.text)

SuggestItems == {<<"a">>}

NoText == <<>>

Automatic == "Automatic"
Explicit == "Explicit"

Reasons == {"Undo", "Redo", "AcceptWord", "Other"}

NoBatch == [id |-> 0, ver |-> 0, kind |-> Automatic, sug |-> NoText, items |-> <<>>]

Idle == [pc |-> "idle", cand |-> <<>>, bid |-> 0, k |-> 0, col |-> 0]

\* Batch objects alive at once: the own batch, the preview batch, one per
\* executing command, one being created.
BatchIds == 1..(MaxCmds + 3)

\* The model's state as one record, so that a handler is a composition of its
\* statements.  Seven more fields describe the call being made and are not
\* state: outcome (how the call ended), fetches (the calls of _source.fetch),
\* awaited (the provider call the promise of the last fetch waits for, <<>> when
\* it is resolved already), hooks (the calls of handlePartialAccept),
\* observed (what the derived values and autoruns have found, run by run),
\* shown (the calls of handleItemDidShow, by the candidate shown) and calls (the
\* calls accept() makes on the editor).
Cur ==
    [doc |-> doc, behind |-> behind, cursorLine |-> cursorLine,
     cursorPosition |-> cursorPosition, version |-> version, isActive |-> isActive,
     enabled |-> enabled, suggestItem |-> suggestItem, selectedId |-> selectedId,
     batch |-> batch, swBatch |-> swBatch, ops |-> ops, refCount |-> refCount,
     freed |-> freed, deps |-> deps, accepting |-> accepting,
     run |-> run, cmds |-> cmds, outcome |-> "ok", fetches |-> <<>>,
     awaited |-> <<>>, hooks |-> <<>>, observed |-> <<>>,
     lastItem |-> lastItem, shown |-> <<>>, calls |-> <<>>]

Outcome(s, o) == [s EXCEPT !.outcome = o]

----------------------------------------------------------------------------
(* Text *)

IsPrefix(p, t) == Len(p) <= Len(t) /\ SubSeq(t, 1, Len(p)) = p

Drop(t, n) == SubSeq(t, n + 1, Len(t))

Take(t, n) == SubSeq(t, 1, n)

commonPrefixLength(a, b) ==
    LET same == {n \in 0..Len(a) : n <= Len(b) /\ Take(a, n) = Take(b, n)}
    IN  CHOOSE n \in same : \A m \in same : m <= n

\* SingleTextEdit.removeCommonPrefix: the edit of the whole line by text t, with
\* the prefix it shares with the line removed from its range and its text.
removeCommonPrefix(t, d) ==
    LET l == commonPrefixLength(t, d)
    IN  [start |-> l + 1, end |-> Len(d) + 1, text |-> Drop(t, l)]

\* SingleTextEdit.augments: r replaces the base's range (or more) by a text that
\* starts with the base's text.
augments(r, base) ==
    /\ IsPrefix(base.text, r.text)
    /\ r.start = base.start
    /\ r.end >= base.end

\* matchesSubString: the characters of word occur in wordToMatchAgainst, in
\* their order.
RECURSIVE matchesSubString(_, _)
matchesSubString(word, wordToMatchAgainst) ==
    IF word = <<>> THEN TRUE
    ELSE IF wordToMatchAgainst = <<>> THEN FALSE
    ELSE IF Head(word) = Head(wordToMatchAgainst)
    THEN matchesSubString(Tail(word), Tail(wordToMatchAgainst))
    ELSE matchesSubString(word, Tail(wordToMatchAgainst))

\* The line of the candidates' range.
RangeLine == 1

\* InlineCompletionWithUpdatedRange.isVisible: the cursor is on the line of the
\* candidate's range, what the line has before the cursor is a prefix of the
\* candidate's filter text, and what it has behind the cursor occurs in the
\* rest of the filter text.
isVisible(c, d, a, lineNumber) ==
    /\ lineNumber = RangeLine
    /\ IsPrefix(d, c.filterText)
    /\ matchesSubString(a, Drop(c.filterText, Len(d)))

\* The places of the text r where the text a occurs, counted from 0.
Occurrences(a, r) == {p \in 0..(Len(r) - Len(a)) : SubSeq(r, p + 1, p + Len(a)) = a}

\* SingleTextEdit.computeGhostText, of the edit of the whole line d a by the text
\* t: undefined when t is not the line with text inserted at the cursor or
\* behind it; else the inserted texts are the parts, each with its column
\* (text is the text of the first part, empty when nothing is inserted).
GhostText(parts) ==
    [def |-> TRUE, text |-> IF parts = <<>> THEN <<>> ELSE parts[1].text, parts |-> parts]

\* The parts when the text a of the line is found at p in the text r to insert.
GhostTextParts(d, a, r, p) ==
    (IF p > 0 THEN <<[column |-> Len(d) + 1, text |-> Take(r, p)]>> ELSE <<>>)
    \o (IF p + Len(a) < Len(r)
        THEN <<[column |-> Len(d) + Len(a) + 1, text |-> Drop(r, p + Len(a))]>> ELSE <<>>)

computeGhostText(t, d, a) ==
    IF ~IsPrefix(d, t) \/ Occurrences(a, Drop(t, Len(d))) = {}
    THEN [def |-> FALSE, text |-> <<>>, parts |-> <<>>]
    ELSE GhostText(GhostTextParts(d, a, Drop(t, Len(d)),
                    CHOOSE x \in Occurrences(a, Drop(t, Len(d))) :
                        \A y \in Occurrences(a, Drop(t, Len(d))) : x <= y))

----------------------------------------------------------------------------
(* Batches and their reference counts *)

addRef(s, b) ==
    IF b = 0 THEN s ELSE [s EXCEPT !.refCount[b] = @ + 1]

\* The batch is disposed when its count reaches zero.
removeRef(s, b) ==
    IF b = 0 THEN s
    ELSE [s EXCEPT !.refCount[b] = @ - 1,
                   !.freed[b] = IF s.refCount[b] - 1 = 0 THEN @ + 1 ELSE @]

\* disposableObservableValue.set: the value replaced is disposed.
\* A write to _source.inlineCompletions; _filteredInlineCompletionItems is
\* computed again when it is read next, from the _cursorPosition of then.
SetOwn(s, b) ==
    [removeRef(s, s.batch.id) EXCEPT !.batch = b, !.cursorPosition = s.cursorLine]

SetPreviewBatch(s, b) == [removeRef(s, s.swBatch.id) EXCEPT !.swBatch = b]

\* The batch objects something still points to.
Holders(s) == <<s.batch.id, s.swBatch.id, s.run.bid>> \o s.cmds

Held(s) == {Holders(s)[i] : i \in 1..Len(Holders(s))} \ {0}

\* A batch object that was disposed and that nothing points to is gone.
Unused(s) == {b \in BatchIds : s.refCount[b] = 0 /\ b \notin Held(s)}

NewId(s) == CHOOSE b \in Unused(s) : \A c \in Unused(s) : b <= c

\* The identity of a batch object is an arbitrary name: after every step the
\* objects are renamed 1, 2, ... in the order own batch, preview batch, the
\* handler's batch, the commands' batches, then the objects nothing points to.
Forget(s) ==
    LET h == Holders(s)
        held == {h[i] : i \in 1..Len(h)} \ {0}
        named == {b \in BatchIds : s.refCount[b] # 0 \/ b \in held}
        first == [b \in named |->
                    IF b \in held THEN CHOOSE i \in 1..Len(h) :
                                            h[i] = b /\ \A j \in 1..(i - 1) : h[j] # b
                    ELSE Len(h) + b]
        rank == [b \in 0..(MaxCmds + 3) |->
                    IF b \in named THEN Cardinality({x \in named : first[x] <= first[b]})
                    ELSE 0]
        old == [n \in BatchIds |->
                    IF \E b \in named : rank[b] = n
                    THEN CHOOSE b \in named : rank[b] = n ELSE 0]
    IN  IF \A b \in named : rank[b] = b
        THEN [s EXCEPT !.freed = [n \in BatchIds |-> IF n \in named THEN @[n] ELSE 0]]
        ELSE [s EXCEPT !.batch.id = rank[@],
                       !.swBatch.id = rank[@],
                       !.run.bid = rank[@],
                       !.cmds = [i \in 1..Len(s.cmds) |-> rank[s.cmds[i]]],
                       !.refCount = [n \in BatchIds |->
                                        IF old[n] = 0 THEN 0 ELSE s.refCount[old[n]]],
                       !.freed = [n \in BatchIds |->
                                        IF old[n] = 0 THEN 0 ELSE s.freed[old[n]]]]

\* `state` reads the selected candidate, by the branch it takes: the derived
\* values it reads keep their results while what they have read is unchanged.
Watched(s) ==
    (s.suggestItem = NoText /\ s.isActive) \/ (s.suggestItem # NoText /\ s.swBatch.id = 0)

\* The state after a step is the record r, its batch objects renamed.  A derived
\* value that nothing reads any more keeps no result.
Commit(r) ==
    \E s \in {IF r.refCount = refCount /\ r.freed = freed /\ Holders(r) = Holders(Cur)
               THEN r ELSE Forget(r)} :
        /\ doc' = s.doc
        /\ behind' = s.behind
        /\ cursorLine' = s.cursorLine
        /\ cursorPosition' = IF Watched(s) THEN s.cursorPosition ELSE s.cursorLine
        /\ version' = s.version
        /\ isActive' = s.isActive
        /\ enabled' = s.enabled
        /\ suggestItem' = s.suggestItem
        /\ selectedId' = s.selectedId
        /\ lastItem' = s.lastItem
        /\ batch' = s.batch
        /\ swBatch' = s.swBatch
        /\ ops' = s.ops
        /\ refCount' = s.refCount
        /\ freed' = s.freed
        /\ deps' = s.deps
        /\ accepting' = s.accepting
        /\ run' = s.run
        /\ cmds' = s.cmds
        /\ UNCHANGED <<editorVars, wordVars, terminalVars>>

----------------------------------------------------------------------------
(* InlineCompletionsSource *)

Live(o) == {x \in o : ~x.cancelled}

Cancelled(o) == {x \in o : x.cancelled}

\* _updateOperation.clear(): the operation in flight is cancelled; the provider
\* call itself still resolves later.  Nothing reads the trigger kind and the
\* suggest item of a cancelled request any more: they are forgotten.
CancelOps(o) ==
    {[x EXCEPT !.cancelled = TRUE, !.kind = Automatic, !.sug = NoText] : x \in o}

cancelUpdate(s) == [s EXCEPT !.ops = CancelOps(@)]

clear(s) ==
    SetPreviewBatch(SetOwn([s EXCEPT !.ops = CancelOps(@)], NoBatch), NoBatch)

clearSuggestWidgetInlineCompletions(s) ==
    LET s1 == IF \E x \in Live(s.ops) : x.sug # NoText
              THEN [s EXCEPT !.ops = CancelOps(@)] ELSE s
    IN  SetPreviewBatch(s1, NoBatch)

\* UpdateRequest.satisfies: a result for request `have` answers request `want`.
satisfies(have, want) ==
    /\ have.ver = want.ver
    /\ have.sug = want.sug
    /\ (want.kind = Automatic \/ have.kind = Explicit)

\* At most MaxPending provider calls are outstanding: one more cancelled call
\* that nobody awaits is taken to have been answered already.
Room(o) ==
    LET done == {x \in Cancelled(o) : x.navs = <<>>}
    IN  IF Cardinality(o) < MaxPending \/ done = {} THEN o
        ELSE o \ {CHOOSE x \in done : \A y \in done : x.ver <= y.ver}

\* InlineCompletionsSource.fetch: the call in flight is awaited when it
\* satisfies the request, nothing is awaited when the target's batch does, and
\* else a new call supersedes the one in flight.
fetch(s, kind, keep) ==
    LET req == [ver |-> s.version, kind |-> kind, sug |-> s.suggestItem,
                cancelled |-> FALSE, navs |-> <<>>]
        target == IF req.sug # NoText THEN s.swBatch ELSE s.batch
        s1 == [s EXCEPT !.fetches = Append(@, [kind |-> kind, keep |-> keep])]
        same == {x \in Live(s.ops) : satisfies(x, req)}
    IN  IF same # {} THEN [s1 EXCEPT !.awaited = <<CHOOSE x \in same : TRUE>>]
        ELSE IF target.id # 0 /\ satisfies(target, req) THEN [s1 EXCEPT !.awaited = <<>>]
        ELSE [s1 EXCEPT !.ops = Room(CancelOps(@)) \cup {req}, !.awaited = <<req>>]

----------------------------------------------------------------------------
(* Derived values of the model *)

\* _filteredInlineCompletionItems
filteredInlineCompletionItems(s) ==
    SelectSeq(s.batch.items, LAMBDA c : isVisible(c, s.doc, s.behind, s.cursorPosition))

IndexOf(items, id) ==
    IF \E i \in 1..Len(items) : items[i].text = id
    THEN CHOOSE i \in 1..Len(items) :
            /\ items[i].text = id
            /\ \A j \in 1..(i - 1) : items[j].text # id
    ELSE 0

\* Faulty variant of selectedInlineCompletionIndex: the stored id is ignored.
alwaysFirstIndex(s) == 1

\* selectedInlineCompletionIndex, 1-based (the source's index plus one): the
\* position of the stored id, the first position when the id is not found.
selectedInlineCompletionIndex(s) ==
    LET idx == IndexOf(filteredInlineCompletionItems(s), s.selectedId)
    IN  IF idx = 0 THEN 1 ELSE idx

\* Faulty variant of ResetSelection: the stored id is kept when it is not found.
KeepSelection(s) == s

\* The write selectedInlineCompletionIndex makes when the id is not found.
ResetSelection(s) ==
    IF IndexOf(filteredInlineCompletionItems(s), s.selectedId) = 0
    THEN [s EXCEPT !.selectedId = NoText] ELSE s

\* selectedInlineCompletion: <<>> when undefined, else the candidate.
selectedInlineCompletion(s) ==
    LET f == filteredInlineCompletionItems(s)
    IN  IF Len(f) = 0 THEN <<>> ELSE <<f[selectedInlineCompletionIndex(s)]>>

\* Faulty variant of computeAugmentedCompletion: the last candidate that
\* augments is taken, and the own batch is searched when there is no preview
\* batch.
augmentedLastOfAll(s, suggestCompletion) ==
    LET cands == IF s.swBatch.id # 0 THEN s.swBatch.items ELSE s.batch.items
        hits == {i \in 1..Len(cands) :
                    augments(removeCommonPrefix(cands[i].text, s.doc), suggestCompletion)}
    IN  IF hits = {} THEN <<>>
        ELSE <<cands[CHOOSE i \in hits : \A j \in hits : i >= j]>>

\* _computeAugmentedCompletion: the first candidate, of the preview batch if
\* there is one and else the selected candidate alone, that augments the
\* suggest item's edit.  <<>> when there is none.
computeAugmentedCompletion(s, suggestCompletion) ==
    LET cands == IF s.swBatch.id # 0 THEN s.swBatch.items ELSE selectedInlineCompletion(s)
        ok(c) == LET r == removeCommonPrefix(c.text, s.doc)
                 IN  augments(r, suggestCompletion)
        hits == {i \in 1..Len(cands) : ok(cands[i])}
    IN  IF hits = {} THEN <<>>
        ELSE <<cands[CHOOSE i \in hits : \A j \in hits : i <= j]>>

\* The batch a displayed candidate belongs to.
SourceOf(s) ==
    IF s.suggestItem # NoText /\ s.swBatch.id # 0 THEN s.swBatch.id ELSE s.batch.id

Undefined ==
    [def |-> FALSE, suggest |-> FALSE, cand |-> <<>>, ghosts |-> <<>>, edits |-> <<>>,
     bid |-> 0, parts |-> <<>>]

\* state, given the value of _suggestPreviewEnabled (a setting nothing else
\* reads, so the value it has when state is computed is an input of the
\* computation): def is whether it is defined; cand the inline completion (<<>> when
\* undefined); ghosts the ghost texts, one per edit (primaryGhostText is the
\* first, undefined when there is none); edits the texts that replace the line;
\* parts the parts of the primary ghost text.
stateOfSuggestion(s, isSuggestionPreviewEnabled, augmentedCompletion) ==
    LET edits == IF augmentedCompletion # <<>>
                 THEN <<augmentedCompletion[1].text>> ELSE <<>>
        ghost(e) == LET g == computeGhostText(e, s.doc, s.behind)
                    IN  IF g.def THEN g.text ELSE <<>>
    IN  IF ~isSuggestionPreviewEnabled /\ augmentedCompletion = <<>> THEN Undefined
        ELSE [def |-> TRUE, suggest |-> TRUE, cand |-> augmentedCompletion,
              ghosts |-> [i \in 1..Len(edits) |-> ghost(edits[i])],
              edits |-> edits, bid |-> SourceOf(s),
              parts |-> IF edits = <<>> THEN <<>>
                        ELSE computeGhostText(edits[1], s.doc, s.behind).parts]

stateOfGhostText(s, inlineCompletion, g) ==
    IF ~g.def THEN Undefined
    ELSE [def |-> TRUE, suggest |-> FALSE, cand |-> inlineCompletion,
          ghosts |-> <<g.text>>, edits |-> <<inlineCompletion[1].text>>,
          bid |-> SourceOf(s), parts |-> g.parts]

stateOfInlineCompletion(s, inlineCompletion) ==
    IF ~s.isActive \/ inlineCompletion = <<>> THEN Undefined
    ELSE stateOfGhostText(s, inlineCompletion,
            computeGhostText(inlineCompletion[1].text, s.doc, s.behind))

state(s, isSuggestionPreviewEnabled) ==
    IF s.suggestItem # NoText
    THEN stateOfSuggestion(s, isSuggestionPreviewEnabled,
            computeAugmentedCompletion(s, removeCommonPrefix(s.suggestItem, s.doc)))
    ELSE stateOfInlineCompletion(s, selectedInlineCompletion(s))

\* semanticId of a candidate: what it filters by and what it inserts.
semanticId(c) == <<c.filterText, c.text>>

\* The semantic id of item?.inlineCompletion, <<>> when it is undefined.
SemanticIdOf(item) ==
    IF item = <<>> THEN <<>> ELSE <<semanticId(item[1])>>

\* Faulty variant of itemDidShow: the hook is called at every run that finds a
\* candidate, lastItem is not compared.
itemDidShowEveryRun(s, item) ==
    [s EXCEPT !.lastItem = SemanticIdOf(item),
              !.shown = IF item # <<>> THEN Append(@, item[1]) ELSE @]

\* Lines 69-78: the body of the autorun, for the inline completion of the
\* state it has read.
itemDidShow(s, item) ==
    IF SemanticIdOf(item) # s.lastItem
    THEN [s EXCEPT !.lastItem = SemanticIdOf(item),
                   !.shown = IF item # <<>> THEN Append(@, item[1]) ELSE @]
    ELSE s

\* The autorun on `state` keeps it computed: it reads
\* selectedInlineCompletionIndex, and so makes its write, in the branches that
\* read the selected candidate; then it calls the hook for a candidate that is
\* newly shown.  The inline completion of the state does not depend on the
\* preview setting.
ObserveSelection(s) == IF Watched(s) THEN ResetSelection(s) ELSE s

ObserveState(s) == itemDidShow(s, state(s, FALSE).cand)

Observe(s) == ObserveState(ObserveSelection(s))

----------------------------------------------------------------------------
(* _fetchInlineCompletions *)

\* Faulty variant of _preserveCurrentCompletionReasons: AcceptWord is missing.
preserveUndoRedoOnly == {"Redo", "Undo"}

preserveCurrentCompletionReasons == {"Redo", "Undo", "AcceptWord"}

createEmptyChangeSummary ==
    [preserveCurrentCompletion |-> FALSE, inlineCompletionTriggerKind |-> Automatic]

\* handleChange for one changed observable and its change.
handleChange(summary, obs, change) ==
    IF obs = "version" /\ change \in preserveCurrentCompletionReasons
    THEN [summary EXCEPT !.preserveCurrentCompletion = TRUE]
    ELSE IF obs = "force"
    THEN [summary EXCEPT !.inlineCompletionTriggerKind = change]
    ELSE summary

\* The observables the computation reads, by the branch it takes.
DepsAfter(s) ==
    LET widget == s.enabled /\ s.suggestItem # NoText
        shouldUpdate == widget \/ s.isActive
    IN  (IF s.enabled \/ shouldUpdate THEN {"suggestItem"} ELSE {})
        \cup (IF widget THEN {} ELSE {"isActive"})
        \cup (IF shouldUpdate THEN {"version"} ELSE {})

\* Faulty variant of Seed: the preview batch replaces the own batch whatever
\* their version stamps are.
seedAlways(s) ==
    IF s.swBatch.id # 0 /\ s.suggestItem = NoText
    THEN clearSuggestWidgetInlineCompletions(SetOwn(addRef(s, s.swBatch.id), s.swBatch))
    ELSE s

\* Lines 122-133: seed the own batch with a newer preview batch.
Seed(s) ==
    IF s.swBatch.id # 0 /\ s.suggestItem = NoText
    THEN LET s1 == IF s.batch.id = 0 \/ s.swBatch.ver > s.batch.ver
                   THEN SetOwn(addRef(s, s.swBatch.id), s.swBatch) ELSE s
         IN  clearSuggestWidgetInlineCompletions(s1)
    ELSE s

\* Faulty variant of FetchInlineCompletions: shouldUpdate is not looked at.
fetchWhateverTheSession(s, changeSummary) ==
    [fetch(Seed(ResetSelection(s)), changeSummary.inlineCompletionTriggerKind, <<>>)
        EXCEPT !.deps = DepsAfter(s)]

\* The computation of the derived value.
FetchInlineCompletions(s, changeSummary) ==
    LET shouldUpdate == (s.enabled /\ s.suggestItem # NoText) \/ s.isActive
    IN  IF ~shouldUpdate THEN [cancelUpdate(s) EXCEPT !.deps = DepsAfter(s)]
        ELSE LET s1 == ResetSelection(s)
                 itemToPreserveCandidate == selectedInlineCompletion(s1)
                 itemToPreserve ==
                    IF changeSummary.preserveCurrentCompletion
                       \/ (itemToPreserveCandidate # <<>> /\ itemToPreserveCandidate[1].fs)
                    THEN itemToPreserveCandidate ELSE <<>>
                 s2 == Seed(s1)
                 s3 == fetch(s2, changeSummary.inlineCompletionTriggerKind, itemToPreserve)
             IN  [s3 EXCEPT !.deps = DepsAfter(s)]

\* What the derived values and the autoruns find when they run: the flag, the
\* batches of the source, the trigger kind the force signal carries, and
\* whether a partial accept is applying its edit.
Seen(s, changed) ==
    [s EXCEPT !.observed =
        Append(@, [isActive |-> s.isActive, batch |-> s.batch.id, swBatch |-> s.swBatch.id,
                   force |-> IF <<"force", Explicit>> \in changed THEN Explicit
                             ELSE Automatic,
                   accepting |-> s.accepting])]

\* The end of a transaction that changed the observables `changed` (a set of
\* <<observable, change>>): the derived value is recomputed when one it read
\* has changed.
React(s, changed) ==
    LET tracked == {c \in changed : c[1] \in s.deps \cup {"force", "enabled"}}
        ver == {c \in tracked : c[1] = "version"}
        force == {c \in tracked : c[1] = "force"}
        sum1 == IF ver = {} THEN createEmptyChangeSummary
                ELSE handleChange(createEmptyChangeSummary, "version", (CHOOSE c \in ver : TRUE)[2])
        sum2 == IF force = {} THEN sum1
                ELSE handleChange(sum1, "force", (CHOOSE c \in force : TRUE)[2])
    IN  Observe(IF tracked = {} THEN Seen(s, changed)
                ELSE FetchInlineCompletions(Seen(s, changed), sum2))

----------------------------------------------------------------------------
(* Initial state: the model as constructed, nothing typed, nothing fetched *)

\* The session on a line that has the text a behind the cursor.
InitLine(a) ==
    /\ doc = <<>>
    /\ behind = a
    /\ cursorLine = RangeLine
    /\ cursorPosition = RangeLine
    /\ version = 0
    /\ isActive = FALSE
    /\ enabled = TRUE
    /\ suggestItem = NoText
    /\ selectedId = NoText
    /\ lastItem = <<>>
    /\ batch = NoBatch
    /\ swBatch = NoBatch
    /\ ops = {}
    /\ refCount = [b \in BatchIds |-> 0]
    /\ freed = [b \in BatchIds |-> 0]
    /\ deps = {"suggestItem", "isActive"}
    /\ accepting = FALSE
    /\ run = Idle
    /\ cmds = <<>>

InitSession == InitLine(<<>>)

\* TerminalEditorService as constructed (lines 27-28).
NoTerminals == instances = <<>> /\ activeInstanceIndex = -1

\* In the session the editor has one line and one cursor, see `doc`.
NoCompletion == [range |-> [lineNumber |-> 1, startColumn |-> 1, endColumn |-> 1],
                 text |-> <<>>, additionalTextEdits |-> <<>>]

Init ==
    /\ InitSession
    /\ textModel = <<>>
    /\ selections = <<>>
    /\ completion = NoCompletion
    /\ edited = "no"
    /\ ghostText = <<>>
    /\ wordDefinition = {}
    /\ committed = <<>>
    /\ NoTerminals

----------------------------------------------------------------------------
(* The editor and the settings: the observables the model is given *)

\* An edit of the document by the user: a character typed (Other, Redo) or
\* the last one removed (Other, Undo).
Edited(d, typed, c) == IF typed THEN Append(d, c) ELSE Take(d, Len(d) - 1)

userEdit(s, reason, typed, c) ==
    React([s EXCEPT !.doc = Edited(s.doc, typed, c), !.version = @ + 1,
                    !.cursorPosition = s.cursorLine],
          {<<"version", reason>>})

CanEdit(s, reason, typed, c) ==
    /\ s.version < MaxVersion
    /\ IF typed THEN reason \in {"Other", "Redo"} /\ Len(s.doc) < MaxDocLen
                ELSE reason \in {"Other", "Undo"} /\ s.doc # <<>> /\ c = "a"

UserEdit(reason, typed, c) ==
    /\ run.pc = "idle"
    /\ CanEdit(Cur, reason, typed, c)
    /\ Commit(userEdit(Cur, reason, typed, c))

setEnabled(s) == React([s EXCEPT !.enabled = ~s.enabled], {<<"enabled", "">>})

SetEnabled ==
    /\ run.pc = "idle"
    /\ Commit(setEnabled(Cur))

\* The suggest widget selects an item, or none.
selectSuggestItem(s, item) ==
    React([s EXCEPT !.suggestItem = item], {<<"suggestItem", "">>})

SelectSuggestItem(item) ==
    /\ run.pc = "idle"
    /\ item # suggestItem
    /\ Commit(selectSuggestItem(Cur, item))

----------------------------------------------------------------------------
(* trigger, triggerExplicitly, stop *)

IsActiveChange(s, b) == IF s.isActive # b THEN {<<"isActive", "">>} ELSE {}

trigger(s) == React([s EXCEPT !.isActive = TRUE], IsActiveChange(s, TRUE))

\* Faulty variant of triggerExplicitly: the flag and the signal change in two
\* transactions, so the derived value is recomputed after each.
triggerExplicitlyTwice(s) ==
    React(React([s EXCEPT !.isActive = TRUE], IsActiveChange(s, TRUE)),
          {<<"force", Explicit>>})

\* One transaction sets the flag and fires the signal.
triggerExplicitly(s) ==
    React([s EXCEPT !.isActive = TRUE],
          IsActiveChange(s, TRUE) \cup {<<"force", Explicit>>})

\* Faulty variant of moveSelection: the selection always moves forward.
moveSelectionForward(s, delta) ==
    LET completions == filteredInlineCompletionItems(s)
        n == Len(completions)
        newIdx == ((selectedInlineCompletionIndex(s) - 1 + 1 + n) % n) + 1
    IN  Observe([s EXCEPT !.selectedId = IF n > 0 THEN completions[newIdx].text ELSE NoText])

\* Lines 309-315: the selection moves by delta in the filtered list, cyclically;
\* the id is cleared when the list is empty.
moveSelection(s, delta) ==
    LET completions == filteredInlineCompletionItems(s)
        n == Len(completions)
        newIdx == ((selectedInlineCompletionIndex(s) - 1 + delta + n) % n) + 1
    IN  Observe([s EXCEPT !.selectedId = IF n > 0 THEN completions[newIdx].text
                                          ELSE NoText])

\* The continuations of the calls of next() and previous() that awaited one
\* fetch.
RECURSIVE Resume(_, _)
Resume(s, deltas) ==
    IF deltas = <<>> THEN s
    ELSE Resume(moveSelection(s, Head(deltas)), Tail(deltas))

\* Faulty variant of deltaSelectedInlineCompletionIndex: the selection moves
\* without waiting for the fetch.
deltaWithoutAwait(s, delta) == moveSelection(triggerExplicitly(s), delta)

\* Lines 306-307: next() (delta 1) and previous() (delta -1) trigger explicitly
\* and wait for the fetch; with nothing to wait for they go on at once.
deltaSelectedInlineCompletionIndex(s, delta) ==
    LET r == triggerExplicitly(s)
    IN  IF r.awaited = <<>> THEN moveSelection(r, delta)
        ELSE [r EXCEPT !.ops = (@ \ {r.awaited[1]})
                                \cup {[r.awaited[1] EXCEPT !.navs = Append(@, delta)]}]

RECURSIVE Sum(_, _)
Sum(f, S) == IF S = {} THEN 0
             ELSE LET x == CHOOSE y \in S : TRUE IN f[x] + Sum(f, S \ {x})

NavCount(s) == Sum([x \in s.ops |-> Len(x.navs)], s.ops)

\* Faulty variant of stop: the source is not cleared.
stopWithoutClear(s) == React([s EXCEPT !.isActive = FALSE], IsActiveChange(s, FALSE))

\* Faulty variant of stop: the batches are dropped, the call in flight is not
\* cancelled.
stopWithoutCancel(s) ==
    React(SetPreviewBatch(SetOwn([s EXCEPT !.isActive = FALSE], NoBatch), NoBatch),
          IsActiveChange(s, FALSE))

\* Faulty variant of stop: the flag is reset in a transaction of its own, the
\* source is cleared in a second one.
stopInTwoTransactions(s) ==
    React(clear(React([s EXCEPT !.isActive = FALSE], IsActiveChange(s, FALSE))), {})

\* One transaction resets the flag and clears the source.
stop(s) == React(clear([s EXCEPT !.isActive = FALSE]), IsActiveChange(s, FALSE))

Trigger ==
    /\ run.pc = "idle"
    /\ Commit(trigger(Cur))

TriggerExplicitly ==
    /\ run.pc = "idle"
    /\ Commit(triggerExplicitly(Cur))

Stop ==
    /\ run.pc = "idle"
    /\ Commit(stop(Cur))

DeltaSelectedInlineCompletionIndex(delta) ==
    /\ run.pc = "idle"
    /\ NavCount(Cur) < MaxNavs
    /\ Commit(deltaSelectedInlineCompletionIndex(Cur, delta))

----------------------------------------------------------------------------
(* The provider answers a call *)

\* Faulty variant of Stale: every answer is taken.
NeverStale(s, o) == FALSE

\* A call's answer is stale when the call was cancelled or was made for
\* another version of the document.
Stale(s, o) == o.cancelled \/ o.ver # s.version

\* The continuation of InlineCompletionsSource.fetch: a stale answer is
\* discarded; else it becomes the batch of the request's target.
storeAnswer(s, o, items) ==
    LET s0 == [s EXCEPT !.ops = @ \ {o}]
        id == NewId(s0)
        b == [id |-> id, ver |-> o.ver, kind |-> o.kind, sug |-> o.sug,
              items |-> items]
        s1 == [s0 EXCEPT !.refCount[id] = 1, !.freed[id] = 0]
    IN  IF Stale(s, o) THEN Outcome(s0, "discarded")
        ELSE Observe(IF o.sug # NoText THEN SetPreviewBatch(s1, b) ELSE SetOwn(s1, b))

\* The promise of the call settles: the next() and previous() calls that
\* awaited it go on, in the order they were made.
resolveFetch(s, o, items) == Resume(storeAnswer(s, o, items), o.navs)

ResolveFetch(o, items) ==
    /\ run.pc = "idle"
    /\ o \in ops
    /\ IF Stale(Cur, o) THEN items = <<>> ELSE Unused(Cur) # {}
    /\ Commit(resolveFetch(Cur, o, items))

----------------------------------------------------------------------------
(* accept *)

\* The text change an edit of the editor makes, and what follows from it.  The
\* reason of the change is AcceptWord while a partial accept is applying its
\* edit.
executeEdits(s, d) ==
    React([s EXCEPT !.doc = d, !.version = @ + 1, !.cursorPosition = s.cursorLine],
          {<<"version", IF s.accepting THEN "AcceptWord" ELSE "Other">>})

\* The text changes that make the line the texts of ds, one after the other.
RECURSIVE executeAll(_, _)
executeAll(s, ds) ==
    IF ds = <<>> THEN s ELSE executeAll(executeEdits(s, Head(ds)), Tail(ds))

\* A call on the editor: the edits it is given (a position is an empty range,
\* a snippet the text at the position it is inserted at) and whether it makes
\* an undo stop before it acts.
EditorCall(op, edits, undoStop) == [op |-> op, edits |-> edits, undoStop |-> undoStop]

\* The range of a candidate of the session: what is typed of the line.
RangeEdit(s, text) ==
    [lineNumber |-> RangeLine, startColumn |-> 1, endColumn |-> Len(s.doc) + 1, text |-> text]

PositionAt(column) ==
    [lineNumber |-> RangeLine, startColumn |-> column, endColumn |-> column, text |-> <<>>]

\* Faulty variant of editorCalls: a snippet is accepted as a plain text is.
editorCallsPlain(s, st) ==
    << EditorCall("pushUndoStop", <<>>, TRUE),
       EditorCall("executeEdits",
                  [i \in 1..Len(st.edits) |-> RangeEdit(s, st.edits[i])]
                      \o st.cand[1].additionalTextEdits, FALSE),
       EditorCall("setSelections",
                  [i \in 1..Len(st.edits) |-> PositionAt(Len(st.edits[i]) + 1)], FALSE) >>

\* Lines 337-355: the calls accept() makes on the editor, in their order.
editorCalls(s, st) ==
    IF st.cand[1].snippet
    THEN << EditorCall("pushUndoStop", <<>>, TRUE),
            EditorCall("executeEdits",
                       <<RangeEdit(s, <<>>)>> \o st.cand[1].additionalTextEdits, FALSE),
            EditorCall("setPosition", <<PositionAt(1)>>, FALSE),
            EditorCall("insert", <<[PositionAt(1) EXCEPT !.text = st.cand[1].text]>>, FALSE) >>
    ELSE << EditorCall("pushUndoStop", <<>>, TRUE),
            EditorCall("executeEdits",
                       [i \in 1..Len(st.edits) |-> RangeEdit(s, st.edits[i])]
                           \o st.cand[1].additionalTextEdits, FALSE),
            EditorCall("setSelections",
                       [i \in 1..Len(st.edits) |-> PositionAt(Len(st.edits[i]) + 1)], FALSE) >>

\* Lines 326-355: the checks, then the undo stop, the edits and the cursors.
\* The candidate replaces the line by its text and the cursor is at its end;
\* a snippet is inserted by the snippet controller after the line was emptied.
acceptState(s, st) ==
    IF ~st.def THEN Outcome(s, "return")
    ELSE IF Len(st.ghosts) = 0 THEN Outcome(s, "TypeError")
    ELSE IF st.ghosts[1] = <<>> \/ st.cand = <<>> THEN Outcome(s, "return")
    ELSE executeAll([s EXCEPT !.run = [pc |-> "edited", cand |-> st.cand,
                                       bid |-> st.bid, k |-> 0, col |-> 0],
                              !.behind = <<>>, !.calls = editorCalls(s, st)],
                    IF st.cand[1].snippet THEN <<<<>>, st.cand[1].text>>
                    ELSE <<st.edits[1]>>)

acceptCall(s, editor, pv) ==
    IF editor # "bound" THEN Outcome(s, "BugIndicatingError")
    ELSE acceptState(s, state(s, pv))

\* Faulty variant of acceptAddRef: no reference is taken.
acceptWithoutRef(s) == [s EXCEPT !.run.pc = "refd"]

\* Lines 357-360
acceptAddRef(s) ==
    [(IF s.run.cand[1].cmd THEN addRef(s, s.run.bid) ELSE s) EXCEPT !.run.pc = "refd"]

\* Faulty variant of acceptReset: the flag is reset, the source is not cleared.
acceptResetFlagOnly(s) ==
    React([s EXCEPT !.isActive = FALSE, !.run.pc = "reset"],
          IF s.isActive THEN {<<"isActive", "">>} ELSE {})

\* Lines 362-368: one transaction
acceptReset(s) ==
    React([clear(s) EXCEPT !.isActive = FALSE, !.run.pc = "reset"],
          IF s.isActive THEN {<<"isActive", "">>} ELSE {})

\* Lines 370-373: the command is started and accept() waits for it; without a
\* command accept() is done.
acceptCommand(s) ==
    IF s.run.cand[1].cmd
    THEN [s EXCEPT !.cmds = Append(@, s.run.bid), !.run = Idle]
    ELSE [s EXCEPT !.run = Idle]

\* Faulty variant of commandSettled: a failure of the command propagates out of
\* accept(), past the release of the reference.
commandSettledRethrows(s, i, failed) ==
    LET b == s.cmds[i]
        s1 == [s EXCEPT !.cmds = SubSeq(@, 1, i - 1) \o SubSeq(@, i + 1, Len(@))]
    IN  IF failed THEN Outcome(s1, "throws") ELSE removeRef(s1, b)

\* Lines 373-375: the command has settled; a failure is handed to
\* onUnexpectedExternalError and the wait ends normally.
commandSettled(s, i, failed) ==
    LET b == s.cmds[i]
        s1 == [s EXCEPT !.cmds = SubSeq(@, 1, i - 1) \o SubSeq(@, i + 1, Len(@))]
    IN  Outcome(removeRef(s1, b), IF failed THEN "reported" ELSE "ok")

Accept(editor, pv) ==
    /\ run.pc = "idle"
    /\ \E r \in {acceptCall(Cur, editor, pv)} :
            /\ r.run.pc # "idle" => version < MaxVersion /\ Len(cmds) < MaxCmds
            /\ r.version <= MaxVersion
            /\ Commit(r)

AcceptAddRef ==
    /\ run.pc = "edited"
    /\ Commit(acceptAddRef(Cur))

AcceptReset ==
    /\ run.pc = "refd"
    /\ Commit(acceptReset(Cur))

\* Faulty variant of AcceptCommand: the command is started before the reset.
AcceptCommandEarly ==
    /\ run.pc \in {"refd", "reset"}
    /\ Commit(acceptCommand(Cur))

AcceptCommand ==
    /\ run.pc = "reset"
    /\ Commit(acceptCommand(Cur))

CommandSettle(i, failed) ==
    /\ run.pc = "idle"
    /\ i \in 1..Len(cmds)
    /\ Commit(commandSettled(Cur, i, failed))

Editors == {"bound", "other"}

\* The values of _suggestPreviewEnabled that a call can tell apart: the setting
\* is read only when a suggest item is selected and the editor is the bound one.
Previews(s, editor) ==
    IF editor = "bound" /\ s.suggestItem # NoText THEN BOOLEAN ELSE {FALSE}

\* The boundaries a call can tell apart: none is computed for another editor.
Boundaries(editor) == IF editor = "bound" THEN 1..LongestText ELSE {1}

----------------------------------------------------------------------------
(* acceptNextWord, acceptNextLine: _acceptNext *)

\* Faulty variant of acceptNextChecked: a boundary at the end of the first part
\* is a call of accept() whatever parts follow.
acceptNextFirstPartOnly(s, st, k) ==
    IF ~st.def THEN Outcome(s, "return")
    ELSE IF Len(st.ghosts) = 0 THEN Outcome(s, "TypeError")
    ELSE IF st.ghosts[1] = <<>> \/ st.cand = <<>> THEN Outcome(s, "return")
    ELSE IF \/ st.cand[1].snippet \/ st.cand[1].filterText # st.cand[1].text
            \/ k = Len(st.parts[1].text)
    THEN acceptState(s, st)
    ELSE [addRef(s, st.bid) EXCEPT
            !.accepting = TRUE,
            !.run = [pc |-> "partial", cand |-> st.cand, bid |-> st.bid, k |-> k,
                     col |-> st.parts[1].column]]

\* Lines 422-450, past the check of the editor; k is what getAcceptUntilIndex
\* returns for the first part of the ghost text.  A candidate with a snippet or
\* with a filter text of its own, and a boundary at the end of a ghost text of
\* one part, are a call of accept(); else a reference is taken and the flag is
\* set.
acceptNextState(s, st, k) ==
    IF ~st.def THEN Outcome(s, "return")
    ELSE IF Len(st.ghosts) = 0 THEN Outcome(s, "TypeError")
    ELSE IF st.ghosts[1] = <<>> \/ st.cand = <<>> THEN Outcome(s, "return")
    ELSE IF \/ st.cand[1].snippet \/ st.cand[1].filterText # st.cand[1].text
            \/ k = Len(st.parts[1].text) /\ Len(st.parts) = 1
    THEN acceptState(s, st)
    ELSE [addRef(s, st.bid) EXCEPT
            !.accepting = TRUE,
            !.run = [pc |-> "partial", cand |-> st.cand, bid |-> st.bid, k |-> k,
                     col |-> st.parts[1].column]]

acceptNextChecked(s, editor, pv, k) == acceptNextState(s, state(s, pv), k)

\* Lines 429-443: what the promise of _acceptNext waits for once the checks have
\* passed.  The call of accept() for a snippet or a filter text of its own is
\* awaited (line 431); the call of accept() for a boundary at the end of a ghost
\* text of one part is not (line 441), its promise is dropped; a partial accept
\* has nothing to wait for.
acceptNextAwaits(st, k) ==
    IF st.cand[1].snippet \/ st.cand[1].filterText # st.cand[1].text THEN "accept"
    ELSE "nothing"

\* Faulty variant of acceptNextCall: the editor is not checked.
acceptNextAnyEditor(s, editor, pv, k) == acceptNextChecked(s, "bound", pv, k)

\* Lines 417-450
acceptNextCall(s, editor, pv, k) ==
    IF editor # "bound" THEN Outcome(s, "BugIndicatingError")
    ELSE acceptNextChecked(s, editor, pv, k)

\* Faulty variant of partialEdit: the text up to the first part is put back and
\* nothing of the first part is committed.
partialEditNothing(s, throws) ==
    IF throws THEN [s EXCEPT !.accepting = FALSE, !.run.pc = "thrown"]
    ELSE [executeEdits([s EXCEPT !.behind = IF s.run.col = Len(s.doc) + 1 THEN @ ELSE <<>>],
                       Take(s.run.cand[1].text, s.run.col - 1))
            EXCEPT !.accepting = FALSE, !.run.pc = "committed"]

\* Faulty variant of partialEdit: the whole text of the candidate is committed.
partialEditWholeText(s, throws) ==
    IF throws THEN [s EXCEPT !.accepting = FALSE, !.run.pc = "thrown"]
    ELSE [executeEdits([s EXCEPT !.behind = <<>>], s.run.cand[1].text)
            EXCEPT !.accepting = FALSE, !.run.pc = "committed"]

\* Faulty variant of partialEdit: the flag is reset only after an edit that
\* was applied.
partialEditNoFinally(s, throws) ==
    IF throws THEN [s EXCEPT !.run.pc = "thrown"]
    ELSE [executeEdits([s EXCEPT !.behind = IF s.run.col = Len(s.doc) + 1 THEN @ ELSE <<>>],
                       Take(s.run.cand[1].text, s.run.col - 1 + s.run.k))
            EXCEPT !.accepting = FALSE, !.run.pc = "committed"]

\* Lines 451-464: the edit replaces the line up to the first part by the
\* candidate's text up to the boundary, and the cursor is at the end of what it
\* inserted; the flag is reset whether or not the editor throws.
partialEdit(s, throws) ==
    IF throws THEN [s EXCEPT !.accepting = FALSE, !.run.pc = "thrown"]
    ELSE [executeEdits([s EXCEPT !.behind = IF s.run.col = Len(s.doc) + 1 THEN @ ELSE <<>>],
                       Take(s.run.cand[1].text, s.run.col - 1 + s.run.k))
            EXCEPT !.accepting = FALSE, !.run.pc = "committed"]

\* Faulty variant of partialRelease: the reference is released only after an
\* edit that was applied.
partialReleaseNoFinally(s) ==
    IF s.run.pc = "thrown" THEN Outcome([s EXCEPT !.run = Idle], "throws")
    ELSE [removeRef(s, s.run.bid) EXCEPT !.run = Idle]

\* Faulty variant of handlePartialAccept: the hook is called with the length of
\* the text just committed.
handlePartialAcceptOfNewText(s) ==
    IF s.run.pc = "committed" /\ s.run.cand[1].hook
    THEN [s EXCEPT !.hooks = Append(@, [acceptedCharacters |-> s.run.k])]
    ELSE s

\* Lines 466-475: the provider's hook, called with the length of the text that
\* the line has from the start of the candidate's range to the end of the text
\* just committed.
handlePartialAccept(s) ==
    IF s.run.pc = "committed" /\ s.run.cand[1].hook
    THEN [s EXCEPT !.hooks = Append(@, [acceptedCharacters |-> s.run.col - 1 + s.run.k])]
    ELSE s

\* Lines 466-478: the provider's hook after an edit that was applied, and in
\* every case the release of the reference.
partialRelease(s) ==
    Outcome([removeRef(handlePartialAccept(s), s.run.bid) EXCEPT !.run = Idle],
            IF s.run.pc = "thrown" THEN "throws" ELSE "ok")

\* The boundary lies in the first part of the ghost text.
InGhost(s, pv, k) ==
    LET st == state(s, pv)
    IN  st.def /\ Len(st.ghosts) > 0 => k = 1 \/ k <= Len(st.ghosts[1])

AcceptNext(editor, pv, k) ==
    /\ run.pc = "idle"
    /\ InGhost(Cur, pv, k)
    /\ \E r \in {acceptNextCall(Cur, editor, pv, k)} :
            /\ r.run.pc # "idle" => version < MaxVersion /\ Len(cmds) < MaxCmds
            /\ r.version <= MaxVersion
            /\ Commit(r)

PartialEdit(throws) ==
    /\ run.pc = "partial"
    /\ Commit(partialEdit(Cur, throws))

PartialRelease ==
    /\ run.pc \in {"thrown", "committed"}
    /\ Commit(partialRelease(Cur))

Next ==
    \/ \E reason \in {"Undo", "Redo", "Other"}, typed \in BOOLEAN, c \in Chars :
            UserEdit(reason, typed, c)
    \/ SetEnabled
    \/ \E item \in SuggestItems \cup {NoText} : SelectSuggestItem(item)
    \/ Trigger
    \/ TriggerExplicitly
    \/ Stop
    \/ \E o \in ops, items \in ProviderLists : ResolveFetch(o, items)
    \/ \E editor \in Editors : \E pv \in Previews(Cur, editor) : Accept(editor, pv)
    \/ \E editor \in Editors : \E pv \in Previews(Cur, editor), k \in Boundaries(editor) :
            AcceptNext(editor, pv, k)
    \/ \E throws \in BOOLEAN : PartialEdit(throws)
    \/ PartialRelease
    \/ AcceptAddRef
    \/ AcceptReset
    \/ AcceptCommand
    \/ \E i \in 1..MaxCmds, failed \in BOOLEAN : CommandSettle(i, failed)

Spec == Init /\ [][Next]_vars

----------------------------------------------------------------------------
(* The selection: the session with next() and previous(), candidates that    *)
(* the text typed filters, and a provider that reorders them.                *)

CandC == [text |-> <<"b">>, cmd |-> FALSE, fs |-> FALSE, snippet |-> FALSE,
          filterText |-> <<"b">>, hook |-> TRUE, additionalTextEdits |-> <<>>]

NavLists == {<<>>, <<CandA, CandB, CandC>>, <<CandC, CandB, CandA>>, <<CandB, CandC>>}

NextNav ==
    \/ \E reason \in {"Undo", "Other"}, typed \in BOOLEAN, c \in Chars :
            UserEdit(reason, typed, c)
    \/ Trigger
    \/ Stop
    \/ \E delta \in {1, -1} : DeltaSelectedInlineCompletionIndex(delta)
    \/ \E o \in ops, items \in NavLists : ResolveFetch(o, items)

SpecNav == Init /\ [][NextNav]_vars

----------------------------------------------------------------------------
(* Partial accepts: the session with a candidate of three characters, one    *)
(* with a snippet, one with a filter text of its own, and a line that may    *)
(* have text after the cursor, so that a ghost text can have two parts.      *)

CandD == [text |-> <<"a", "b", "a">>, cmd |-> FALSE, fs |-> TRUE, snippet |-> FALSE,
          filterText |-> <<"a", "b", "a">>, hook |-> TRUE, additionalTextEdits |-> <<>>]
CandS == [text |-> <<"a", "b">>, cmd |-> TRUE, fs |-> FALSE, snippet |-> TRUE,
          filterText |-> <<"a", "b">>, hook |-> TRUE,
          additionalTextEdits |-> <<[lineNumber |-> 2, startColumn |-> 1, endColumn |-> 1,
                                     text |-> <<"b">>]>>]
CandF == [text |-> <<"a", "b">>, cmd |-> FALSE, fs |-> FALSE, snippet |-> FALSE,
          filterText |-> <<"a">>, hook |-> TRUE, additionalTextEdits |-> <<>>]

PartialLists == {<<CandD>>, <<CandS>>, <<CandF>>, <<CandB, CandD>>}

\* The boundaries getAcceptUntilIndex can return for these candidates.
PartialBoundaries == 1..Len(CandD.text)

\* What the line has after the cursor when the session starts.
Behinds == {<<>>, <<"b">>}

InitPartial ==
    /\ \E a \in Behinds : InitLine(a)
    /\ textModel = <<>>
    /\ selections = <<>>
    /\ completion = NoCompletion
    /\ edited = "no"
    /\ ghostText = <<>>
    /\ wordDefinition = {}
    /\ committed = <<>>
    /\ NoTerminals

NextPartial ==
    \/ \E reason \in {"Undo", "Redo", "Other"}, typed \in BOOLEAN, c \in Chars :
            UserEdit(reason, typed, c)
    \/ Trigger
    \/ DeltaSelectedInlineCompletionIndex(1)
    \/ \E o \in ops, items \in PartialLists : ResolveFetch(o, items)
    \/ Accept("bound", FALSE)
    \/ \E k \in PartialBoundaries : AcceptNext("bound", FALSE, k)
    \/ \E throws \in BOOLEAN : PartialEdit(throws)
    \/ PartialRelease
    \/ AcceptAddRef
    \/ AcceptReset
    \/ AcceptCommand
    \/ \E i \in 1..MaxCmds, failed \in BOOLEAN : CommandSettle(i, failed)

SpecPartial == InitPartial /\ [][NextPartial]_vars

----------------------------------------------------------------------------
(* The cursor: the session in an editor of two lines, where the primary      *)
(* cursor can leave the line of the candidates and come back.                *)

CursorLines == {RangeLine, RangeLine + 1}

\* Lines 81-85 and the reads of _selections: a change of the selections with no
\* change of the text.  The autorun stores a new observable in _cursorPosition
\* and `state`, which reads _selections, is computed again; the values that
\* have read the observable stored before are not told.
moveCursor(s, lineNumber) == Observe([s EXCEPT !.cursorLine = lineNumber])

MoveCursor(lineNumber) ==
    /\ run.pc = "idle"
    /\ lineNumber # cursorLine
    /\ Commit(moveCursor(Cur, lineNumber))

NextCursor ==
    \/ \E typed \in BOOLEAN, c \in Chars :
            cursorLine = RangeLine /\ UserEdit("Other", typed, c)
    \/ Trigger
    \/ Stop
    \/ \E o \in ops, items \in ProviderLists : ResolveFetch(o, items)
    \/ \E lineNumber \in CursorLines : MoveCursor(lineNumber)

SpecCursor == Init /\ [][NextCursor]_vars

----------------------------------------------------------------------------
(* _getEdits and the edits of accept(), for several cursors.  Every text is  *)
(* on one line: a range is a line number with a start and an end column.     *)

EditorLines == {<<"a", "b">>, <<"a", "a", "a">>}

TextModels == {<<l1, l2>> : l1 \in EditorLines, l2 \in EditorLines}

Position(n, c) == [lineNumber |-> n, column |-> c]

Positions(tm) ==
    UNION {{Position(n, c) : c \in 1..(Len(tm[n]) + 1)} : n \in 1..Len(tm)}

\* The cursors of an editor: at least one, no two at the same place.
Selections(tm) ==
    {s \in UNION {[1..k -> Positions(tm)] : k \in 1..MaxCursors} :
        \A i, j \in 1..Len(s) : i # j => s[i] # s[j]}

Range(n, a, b) == [lineNumber |-> n, startColumn |-> a, endColumn |-> b]

\* Range.fromPositions(pos, pos.delta(0, l))
fromPositions(pos, l) == Range(pos.lineNumber, pos.column, pos.column + l)

getEndPosition(range) == Position(range.lineNumber, range.endColumn)

SingleTextEdit(range, text) == [range |-> range, text |-> text]

\* The edits a provider may add to a candidate.
AdditionalTextEdits == {<<>>, <<SingleTextEdit(Range(1, 1, 1), <<"z">>)>>}

\* The candidates that are visible with the primary cursor at p: the range is
\* on the cursor's line and contains the cursor, and the text is what is typed
\* in the range before the cursor, then "c", then what the range replaces
\* after the cursor.
Completions(tm, p) ==
    {[range |-> Range(p.lineNumber, a, b),
      text |-> SubSeq(tm[p.lineNumber], a, p.column - 1) \o <<"c">>
                    \o SubSeq(tm[p.lineNumber], p.column, b - 1),
      additionalTextEdits |-> more] :
        a \in 1..p.column, b \in p.column..(Len(tm[p.lineNumber]) + 1),
        more \in AdditionalTextEdits}

\* String.prototype.substring(start, end) with indices from 0: the indices are
\* clamped to the text and swapped when start is greater than end.
substring(t, start, end) ==
    LET clamp(n) == IF n < 0 THEN 0 ELSE IF n > Len(t) THEN Len(t) ELSE n
        from == IF clamp(start) <= clamp(end) THEN clamp(start) ELSE clamp(end)
        to == IF clamp(start) <= clamp(end) THEN clamp(end) ELSE clamp(start)
    IN  SubSeq(t, from + 1, to)

\* Range.compareRangesUsingStarts: by start, then by end.
compareRangesUsingStarts(a, b) ==
    IF a.lineNumber # b.lineNumber THEN a.lineNumber - b.lineNumber
    ELSE IF a.startColumn # b.startColumn THEN a.startColumn - b.startColumn
    ELSE a.endColumn - b.endColumn

\* Range.compareRangesUsingEnds: by end, then by start.
compareRangesUsingEnds(a, b) ==
    IF a.lineNumber # b.lineNumber THEN a.lineNumber - b.lineNumber
    ELSE IF a.endColumn # b.endColumn THEN a.endColumn - b.endColumn
    ELSE a.startColumn - b.startColumn

\* Permutation.createSortPermutation with the comparison of line 500: the
\* indices of the edits in the order of a stable sort by the starts of their
\* ranges; index k of the result is the index of the edit that comes k-th.
createSortPermutation(arr) ==
    LET before(i, j) == \/ compareRangesUsingStarts(arr[i].range, arr[j].range) < 0
                        \/ compareRangesUsingStarts(arr[i].range, arr[j].range) = 0 /\ i < j
    IN  [k \in 1..Len(arr) |->
            CHOOSE i \in 1..Len(arr) :
                Cardinality({j \in 1..Len(arr) : before(j, i)}) = k - 1]

\* The order in which the editor applies edits: by the ends of their ranges,
\* then as given.
sortOpsAscending(arr) ==
    LET before(i, j) == \/ compareRangesUsingEnds(arr[i].range, arr[j].range) < 0
                        \/ compareRangesUsingEnds(arr[i].range, arr[j].range) = 0 /\ i < j
    IN  [k \in 1..Len(arr) |->
            CHOOSE i \in 1..Len(arr) :
                Cardinality({j \in 1..Len(arr) : before(j, i)}) = k - 1]

\* Permutation.apply
apply(perm, arr) == [k \in 1..Len(arr) |-> arr[perm[k]]]

\* Faulty variant of inverse: the permutation itself.
notInverse(perm) == perm

\* Permutation.inverse
inverse(perm) == [i \in 1..Len(perm) |-> CHOOSE k \in 1..Len(perm) : perm[k] = i]

\* getNewRanges: the ranges the texts of the edits occupy once the edits,
\* given in document order, are all applied; an edit moves the edits that
\* follow it on its line.
RECURSIVE NewRangesFrom(_, _, _)
NewRangesFrom(edits, previousEditEndLineNumber, columnOffset) ==
    IF edits = <<>> THEN <<>>
    ELSE LET edit == Head(edits)
             start == edit.range.startColumn
                        + (IF edit.range.lineNumber = previousEditEndLineNumber
                           THEN columnOffset ELSE 0)
             end == start + Len(edit.text)
         IN  <<Range(edit.range.lineNumber, start, end)>>
                \o NewRangesFrom(Tail(edits), edit.range.lineNumber,
                                 end - edit.range.endColumn)

getNewRanges(edits) == NewRangesFrom(edits, 0, 0)

\* Faulty variant of getEdits: every secondary edit inserts the whole text.
getEditsWholeText(tm, sels, c) ==
    LET secondaryPositions == Tail(sels)
        primaryPosition == sels[1]
        replacedTextAfterPrimaryCursor ==
            substring(tm[primaryPosition.lineNumber], primaryPosition.column - 1,
                      c.range.endColumn - 1)
        secondaryEdit(pos) ==
            LET textAfterSecondaryCursor ==
                    substring(tm[pos.lineNumber], pos.column - 1, Len(tm[pos.lineNumber]))
                l == commonPrefixLength(replacedTextAfterPrimaryCursor,
                                        textAfterSecondaryCursor)
            IN  SingleTextEdit(fromPositions(pos, l), c.text)
        edits == <<SingleTextEdit(c.range, c.text)>>
                    \o [i \in 1..Len(secondaryPositions) |->
                            secondaryEdit(secondaryPositions[i])]
        sortPerm == createSortPermutation(edits)
        sortedNewRanges == getNewRanges(apply(sortPerm, edits))
        newRanges == apply(inverse(sortPerm), sortedNewRanges)
    IN  [edits |-> edits,
         editorSelections |-> [i \in 1..Len(newRanges) |-> getEndPosition(newRanges[i])]]

\* Lines 481-509: _getEdits.
getEdits(tm, sels, c) ==
    LET secondaryPositions == Tail(sels)
        primaryPosition == sels[1]
        replacedTextAfterPrimaryCursor ==
            substring(tm[primaryPosition.lineNumber], primaryPosition.column - 1,
                      c.range.endColumn - 1)
        secondaryEditText ==
            substring(c.text, primaryPosition.column - c.range.startColumn, Len(c.text))
        secondaryEdit(pos) ==
            LET textAfterSecondaryCursor ==
                    substring(tm[pos.lineNumber], pos.column - 1, Len(tm[pos.lineNumber]))
                l == commonPrefixLength(replacedTextAfterPrimaryCursor,
                                        textAfterSecondaryCursor)
            IN  SingleTextEdit(fromPositions(pos, l), secondaryEditText)
        edits == <<SingleTextEdit(c.range, c.text)>>
                    \o [i \in 1..Len(secondaryPositions) |->
                            secondaryEdit(secondaryPositions[i])]
        sortPerm == createSortPermutation(edits)
        sortedNewRanges == getNewRanges(apply(sortPerm, edits))
        newRanges == apply(inverse(sortPerm), sortedNewRanges)
    IN  [edits |-> edits,
         editorSelections |-> [i \in 1..Len(newRanges) |-> getEndPosition(newRanges[i])]]

\* Two ranges overlap when each starts before the other ends; ranges that
\* touch, and an empty range at an end of another, do not.
Overlap(a, b) ==
    /\ a.lineNumber = b.lineNumber
    /\ a.startColumn < b.endColumn
    /\ b.startColumn < a.endColumn

Overlapping(edits) ==
    \E i, j \in 1..Len(edits) : i # j /\ Overlap(edits[i].range, edits[j].range)

\* One line after the edits on it, given in document order: the last first.
RECURSIVE ApplyToLine(_, _)
ApplyToLine(line, edits) ==
    IF edits = <<>> THEN line
    ELSE LET e == edits[Len(edits)]
         IN  ApplyToLine(Take(line, e.range.startColumn - 1) \o e.text
                            \o Drop(line, e.range.endColumn - 1),
                         Take(edits, Len(edits) - 1))

\* The document after the editor has applied edits that do not overlap: the
\* editor orders them by their ends, then as given.
applyEdits(tm, edits) ==
    LET sorted == apply(sortOpsAscending(edits), edits)
    IN  [n \in 1..Len(tm) |->
            ApplyToLine(tm[n], SelectSeq(sorted, LAMBDA e : e.range.lineNumber = n))]

\* Faulty variant of acceptEdits: the cursors are not set after the edits.
acceptEditsKeepCursors(tm, sels, c) ==
    LET st == getEdits(tm, sels, c)
        all == st.edits \o c.additionalTextEdits
    IN  IF Overlapping(all)
        THEN [ok |-> FALSE, textModel |-> tm, selections |-> sels]
        ELSE [ok |-> TRUE, textModel |-> applyEdits(tm, all), selections |-> sels]

\* Lines 348-355: the plain path of accept().  The editor applies the edits
\* of the state and the additional edits of the candidate in one call, and
\* rejects them when two of them overlap; then the cursors are set.
acceptEdits(tm, sels, c) ==
    LET st == getEdits(tm, sels, c)
        all == st.edits \o c.additionalTextEdits
    IN  IF Overlapping(all)
        THEN [ok |-> FALSE, textModel |-> tm, selections |-> sels]
        ELSE [ok |-> TRUE, textModel |-> applyEdits(tm, all),
              selections |-> st.editorSelections]

\* Any document, any cursors, any candidate visible at the primary cursor.
InitEdits ==
    /\ InitSession
    /\ textModel \in TextModels
    /\ selections \in Selections(textModel)
    /\ completion \in Completions(textModel, selections[1])
    /\ edited = "no"
    /\ ghostText = <<>>
    /\ wordDefinition = {}
    /\ committed = <<>>
    /\ NoTerminals

AcceptEdits ==
    /\ edited = "no"
    /\ LET r == acceptEdits(textModel, selections, completion)
       IN  /\ textModel' = r.textModel
           /\ selections' = r.selections
           /\ edited' = IF r.ok THEN "accepted" ELSE "rejected"
    /\ UNCHANGED <<sessionVars, completion, wordVars, terminalVars>>

NextEdits == AcceptEdits

SpecEdits == InitEdits /\ [][NextEdits]_vars

----------------------------------------------------------------------------
(* acceptNextWord: how much of the ghost text the next word is.  A word      *)
(* pattern is a set of characters and matches the runs of them, as \w+ does. *)

Letters == {"h", "e", "l", "o", "w", "r", "d"}

NewLine == "\n"

\* \s
Whitespace == {" ", NewLine}

\* \w+, and a pattern for which a dot is part of a word.
WordDefinitions == {Letters, Letters \cup {"."}}

HelloWorld == <<"h", "e", "l", "l", "o", " ", "w", "o", "r", "l", "d">>

GhostTexts ==
    {HelloWorld} \cup UNION {[1..n -> {"h", " ", ".", NewLine}] : n \in 1..MaxGhostLen}

\* The first match of a pattern that matches the runs of the characters of
\* cs: String.match without the g flag, RegExp.exec from the start.  The index
\* counts from 0; a run goes on as far as it can.
match(text, cs) ==
    LET starts == {i \in 1..Len(text) : text[i] \in cs}
        first == CHOOSE i \in starts : \A j \in starts : i <= j
        ends == {j \in first..Len(text) : \A k \in first..j : text[k] \in cs}
        last == CHOOSE j \in ends : \A k \in ends : k <= j
    IN  IF starts = {} THEN [found |-> FALSE, index |-> 0, length |-> 0]
        ELSE [found |-> TRUE, index |-> first - 1, length |-> last - first + 1]

\* Faulty variant of getAcceptUntilIndex: white space does not end the word.
acceptUntilWordOnly(text, cs) ==
    LET m1 == match(text, cs)
    IN  IF m1.found THEN (IF m1.index = 0 THEN m1.length ELSE m1.index)
        ELSE Len(text)

\* Lines 379-404: the callback acceptNextWord gives to _acceptNext.
getAcceptUntilIndex(text, cs) ==
    LET m1 == match(text, cs)
        untilWord == IF m1.found THEN (IF m1.index = 0 THEN m1.length ELSE m1.index)
                     ELSE Len(text)
        m2 == match(text, Whitespace)
    IN  IF m2.found /\ m2.index + m2.length < untilWord THEN m2.index + m2.length
        ELSE untilWord

\* Line 445: const partialText = text.substring(0, acceptUntilIndexExclusive)
partialText(text, cs) == substring(text, 0, getAcceptUntilIndex(text, cs))

\* Any ghost text, either word pattern, nothing committed.
InitWord ==
    /\ InitSession
    /\ textModel = <<>>
    /\ selections = <<>>
    /\ completion = NoCompletion
    /\ edited = "no"
    /\ ghostText \in GhostTexts
    /\ wordDefinition \in WordDefinitions
    /\ committed = <<>>
    /\ NoTerminals

\* acceptNextWord commits the next word; what is left is the ghost text of
\* the next call.
AcceptNextWord ==
    /\ ghostText # <<>>
    /\ committed' = committed \o partialText(ghostText, wordDefinition)
    /\ ghostText' = Drop(ghostText, getAcceptUntilIndex(ghostText, wordDefinition))
    /\ UNCHANGED <<sessionVars, editorVars, wordDefinition, terminalVars>>

\* Faulty variant of getAcceptUntilIndexOfLine: the line without its end.
acceptUntilBeforeNewLine(text) ==
    LET m == match(text, {NewLine})
    IN  IF m.found THEN m.index ELSE Len(text)

\* Lines 408-414: the callback acceptNextLine gives to _acceptNext.
getAcceptUntilIndexOfLine(text) ==
    LET m == match(text, {NewLine})
    IN  IF m.found THEN m.index + 1 ELSE Len(text)

\* acceptNextLine commits the next line; what is left is the ghost text of
\* the next call.
AcceptNextLine ==
    /\ ghostText # <<>>
    /\ committed' = committed \o substring(ghostText, 0, getAcceptUntilIndexOfLine(ghostText))
    /\ ghostText' = Drop(ghostText, getAcceptUntilIndexOfLine(ghostText))
    /\ UNCHANGED <<sessionVars, editorVars, wordDefinition, terminalVars>>

NextWord == AcceptNextWord \/ AcceptNextLine

SpecWord == InitWord /\ [][NextWord]_vars

----------------------------------------------------------------------------
(* The terminal editor service *)

\* TerminalEditorService keeps the instances it manages in an array and the
\* active one as an index into that array.  An instance is a number; the
\* service is the record of the two fields.
MaxInstances == 4

TerminalInstances == 1 .. MaxInstances

Service == [instances |-> instances, activeInstanceIndex |-> activeInstanceIndex]

Managed(t) == {t.instances[n] : n \in 1 .. Len(t.instances)}

\* Array.prototype.findIndex with `e => e === instance`: the 0-based index
\* of the first occurrence, -1 when there is none.
findIndex(list, instance) ==
    IF \E n \in 1 .. Len(list) : list[n] = instance
    THEN (CHOOSE n \in 1 .. Len(list) :
            list[n] = instance /\ \A m \in 1 .. n - 1 : list[m] # instance) - 1
    ELSE -1

\* Array.prototype.splice(index, 1).
splice(list, index) ==
    [n \in 1 .. Len(list) - 1 |-> IF n <= index THEN list[n] ELSE list[n + 1]]

\* get activeInstance: undefined is <<>>, an instance x is <<x>>.  Reading
\* the array past its end gives undefined.
activeInstance(t) ==
    IF Len(t.instances) = 0 \/ t.activeInstanceIndex = -1
    THEN <<>>
    ELSE IF t.activeInstanceIndex < Len(t.instances)
         THEN <<t.instances[t.activeInstanceIndex + 1]>>
         ELSE <<>>

\* setActiveInstance(instance), `active` being <<>> for undefined.
setActiveInstance(t, active) ==
    [t EXCEPT !.activeInstanceIndex =
        IF active # <<>> THEN findIndex(t.instances, active[1]) ELSE -1]

\* _registerInstance: the instance is pushed.
registerInstance(t, instance) ==
    [t EXCEPT !.instances = Append(@, instance)]

\* _removeInstance: the instance is spliced out when it is found; the
\* index of the active instance is left as it is.
removeInstance(t, instance) ==
    IF findIndex(t.instances, instance) # -1
    THEN [t EXCEPT !.instances = splice(@, findIndex(t.instances, instance))]
    ELSE t

\* detachInstance: the editor input is detached and the instance removed.
detachInstance(t, instance) == removeInstance(t, instance)

\* The onDidCloseEditor listener for the editor of `instance`.
onDidCloseEditor(t, instance) ==
    IF findIndex(t.instances, instance) # -1
    THEN IF activeInstance(t) = <<instance>>
         THEN setActiveInstance(removeInstance(t, instance), <<>>)
         ELSE removeInstance(t, instance)
    ELSE t

CommitService(t) ==
    /\ instances' = t.instances
    /\ activeInstanceIndex' = t.activeInstanceIndex
    /\ UNCHANGED <<sessionVars, editorVars, wordVars>>

RegisterInstance ==
    \E instance \in TerminalInstances \ Managed(Service) :
        CommitService(registerInstance(Service, instance))

\* The active editor changes to the editor of an instance, or to an editor
\* that is no terminal.
SetActiveInstance ==
    \E active \in {<<>>} \cup {<<x>> : x \in TerminalInstances} :
        /\ setActiveInstance(Service, active) # Service
        /\ CommitService(setActiveInstance(Service, active))

CloseEditor ==
    \E instance \in Managed(Service) :
        CommitService(onDidCloseEditor(Service, instance))

DetachInstance ==
    \E instance \in Managed(Service) :
        CommitService(detachInstance(Service, instance))

InitTerminal == Init

NextTerminal ==
    \/ RegisterInstance
    \/ SetActiveInstance
    \/ CloseEditor
    \/ DetachInstance

SpecTerminal == InitTerminal /\ [][NextTerminal]_vars

----------------------------------------------------------------------------
(* Properties *)

\* The inputs of a call in any state.
AnyPreview == BOOLEAN

\* C1: accept() applies the edits, then in one transaction clears the source
\* and resets isActive, and only then starts the candidate's command: when
\* the command starts the edits are in the document, both batches are gone
\* and isActive is false, and while a command is executing the batch it was
\* accepted from is stored in neither slot.
C1_CommandStartsAfterReset ==
    /\ [][Len(cmds') > Len(cmds) =>
            /\ run.pc = "reset"
            /\ doc = run.cand[1].text
            /\ batch = NoBatch /\ swBatch = NoBatch
            /\ ~isActive]_vars
    /\ [](\A i \in 1..Len(cmds) : batch.id # cmds[i] /\ swBatch.id # cmds[i])

\* A command of an accepted candidate is executing.
C1_Witness == cmds # <<>> /\ run.pc = "idle"

\* C2: accept() and the partial accepts, called with an editor whose model is
\* not the bound text model, fail with BugIndicatingError and leave
\* everything as it was: document, version, isActive, batches, reference
\* counts and the stored selection id.
C2_WrongEditorChangesNothing ==
    run.pc = "idle" =>
        \A pv \in AnyPreview, k \in 1..LongestText :
            /\ acceptCall(Cur, "other", pv) = Outcome(Cur, "BugIndicatingError")
            /\ acceptNextCall(Cur, "other", pv, k) = Outcome(Cur, "BugIndicatingError")

\* A ghost text is displayed that the bound editor could accept, in part too.
C2_Witness ==
    /\ run.pc = "idle"
    /\ \E pv \in AnyPreview :
            /\ acceptCall(Cur, "bound", pv).run.pc = "edited"
            /\ acceptNextCall(Cur, "bound", pv, 1).run.pc = "partial"

\* C3: a command that fails does not fail accept(): the failure is reported,
\* accept() ends normally, the document and the session (isActive, batches)
\* are what they were while the command was executing, and the reference
\* accept() took is released.
C3_CommandFailureIsReported ==
    run.pc = "idle" =>
        \A i \in 1..Len(cmds) :
            LET r == commandSettled(Cur, i, TRUE)
            IN  /\ r.outcome = "reported"
                /\ r.run = Idle
                /\ r.doc = doc /\ r.version = version
                /\ r.isActive = isActive /\ r.batch = batch /\ r.swBatch = swBatch
                /\ Len(r.cmds) = Len(cmds) - 1
                /\ r.refCount[cmds[i]] = refCount[cmds[i]] - 1
                /\ [r EXCEPT !.outcome = "ok"] = commandSettled(Cur, i, FALSE)

\* A command is executing after the session was triggered again.
C3_Witness == cmds # <<>> /\ run.pc = "idle" /\ isActive

\* C4: accept() on the bound editor returns without doing anything when the
\* state is undefined, when the state has no inline completion, or when the
\* primary ghost text is empty (there is none, or it has no part).
C4_AcceptWithoutGhostTextReturns ==
    run.pc = "idle" =>
        \A pv \in AnyPreview :
            LET st == state(Cur, pv)
            IN  (~st.def \/ st.cand = <<>> \/ Len(st.ghosts) = 0 \/ st.ghosts[1] = <<>>)
                    => acceptCall(Cur, "bound", pv) = Outcome(Cur, "return")

\* C5: stop() resets isActive and drops both batches in one transaction, and
\* with no suggest item selected the state is undefined afterwards.
C5_StopClearsTheSession ==
    run.pc = "idle" =>
        LET r == stop(Cur)
        IN  /\ ~r.isActive
            /\ r.batch = NoBatch /\ r.swBatch = NoBatch
            /\ r.suggestItem = NoText => \A pv \in AnyPreview : ~state(r, pv).def

\* An active session that holds a batch of its own and a preview batch.
C5_Witness ==
    /\ run.pc = "idle" /\ isActive
    /\ batch.id # 0 /\ batch.items # <<>>
    /\ swBatch.id # 0

\* What the answer `items` to call o leaves stored.
Stored(s, o, items) ==
    LET r == resolveFetch(s, o, items)
    IN  <<[r.batch EXCEPT !.id = 0], [r.swBatch EXCEPT !.id = 0]>>

\* C6: stop() while a provider call is outstanding: isActive is false at
\* once, and whatever the call answers, and whenever (a cancelled call
\* stays cancelled), nothing of the answer is stored or displayed.
C6_StopDiscardsTheFetchInFlight ==
    run.pc = "idle" =>
        /\ LET r == stop(Cur)
           IN  /\ ~r.isActive
               /\ \A o \in r.ops, items \in ProviderLists :
                    Unused(r) # {} =>
                        LET q == resolveFetch(r, o, items)
                        IN  /\ q.batch = NoBatch /\ q.swBatch = NoBatch
                            /\ \A pv \in AnyPreview : state(q, pv).cand = <<>>
        /\ \A o \in Cancelled(ops), items \in ProviderLists :
                Stored(Cur, o, items) = <<[batch EXCEPT !.id = 0], [swBatch EXCEPT !.id = 0]>>

\* A call is outstanding in an active session.
C6_Witness ==
    /\ run.pc = "idle" /\ isActive
    /\ Live(ops) # {}

\* C7: of two overlapping provider calls the older one never overwrites what
\* is stored once the newer one has started: the version stamp of a stored
\* batch never decreases, and in whichever order the two calls are answered
\* what is stored is what the newer call alone leaves.
C7_OlderAnswerNeverOverwrites ==
    /\ [][/\ batch.id # 0 /\ batch'.id # 0 => batch'.ver >= batch.ver
          /\ swBatch.id # 0 /\ swBatch'.id # 0 => swBatch'.ver >= swBatch.ver]_vars
    /\ [](run.pc = "idle" /\ Unused(Cur) # {} =>
            \A o \in Cancelled(ops), n \in Live(ops), i1, i2 \in ProviderLists :
                LET newer == Stored(Cur, n, i2)
                IN  /\ Stored(resolveFetch(Cur, o, i1), n, i2) = newer
                    /\ Stored(resolveFetch(Cur, n, i2), o, i1) = newer)

\* Two calls overlap: the older was superseded by one made for the current
\* version of the document, and a batch is stored.
C7_Witness ==
    /\ run.pc = "idle" /\ batch.id # 0
    /\ \E o \in Cancelled(ops), n \in Live(ops) : o.ver < n.ver /\ n.ver = version

\* The trigger kinds of the calls of _source.fetch an operation makes.
Kinds(r) == {r.fetches[i].kind : i \in 1..Len(r.fetches)}

\* C8: triggerExplicitly() leaves isActive true and makes exactly one fetch,
\* of trigger kind Explicit; the kind is consumed by it: the fetches that
\* trigger(), a text change, a setting or the suggest widget cause are
\* Automatic, also right after an explicit trigger.
C8_ExplicitTriggerFetchesOnce ==
    run.pc = "idle" =>
        /\ LET r == triggerExplicitly(Cur)
           IN  /\ r.isActive
               /\ Len(r.fetches) = 1
               /\ r.fetches[1].kind = Explicit
        /\ Kinds(trigger(Cur)) \subseteq {Automatic}
        /\ Kinds(setEnabled(Cur)) \subseteq {Automatic}
        /\ \A item \in SuggestItems \cup {NoText} :
                Kinds(selectSuggestItem(Cur, item)) \subseteq {Automatic}
        /\ \A reason \in Reasons, typed \in BOOLEAN, c \in Chars :
                CanEdit(Cur, reason, typed, c) =>
                    /\ Len(userEdit(Cur, reason, typed, c).fetches) <= 1
                    /\ Kinds(userEdit(Cur, reason, typed, c)) \subseteq {Automatic}

\* An explicit call is outstanding in an active session, and the text can
\* still change.
C8_Witness ==
    /\ run.pc = "idle" /\ isActive /\ version < MaxVersion
    /\ \E o \in Live(ops) : o.kind = Explicit

\* The references the two slots of the source hold on batch b.
Owners(s, b) ==
    (IF s.batch.id = b THEN 1 ELSE 0) + (IF s.swBatch.id = b THEN 1 ELSE 0)

\* The references accept() and the partial accepts hold on batch b: one per
\* executing command, one of an accept() that has passed line 359, one of a
\* partial accept past line 448.
AcceptRefs(s, b) ==
    Cardinality({i \in 1..Len(s.cmds) : s.cmds[i] = b})
    + (IF s.run.bid = b /\ ((s.run.pc \in {"refd", "reset"} /\ s.run.cand[1].cmd)
                            \/ s.run.pc \in {"partial", "thrown", "committed"})
       THEN 1 ELSE 0)

\* C9: accept() of a candidate with a command has taken its reference on the
\* candidate's batch when the edits are applied to the document.
C9_ReferenceTakenBeforeTheEdits ==
    run.pc = "edited" /\ run.cand[1].cmd =>
        refCount[run.bid] > Owners(Cur, run.bid)

\* C10: while a command is executing, and while accept() or a partial accept
\* is running past its addRef, the batch has a reference of its own besides
\* those of the slots, and is not disposed; every such reference is released
\* once, on the failure paths too, so once the operation has ended the count
\* is again the number of slots that store the batch; no batch is disposed
\* twice.
C10_AcceptReferencesBalanced ==
    \A b \in BatchIds :
        /\ refCount[b] = Owners(Cur, b) + AcceptRefs(Cur, b)
        /\ AcceptRefs(Cur, b) > 0 => freed[b] = 0
        /\ freed[b] <= 1

\* A command is executing, its batch lives by accept()'s reference alone, and
\* a call made since is outstanding.
C10_Witness ==
    /\ run.pc = "idle"
    /\ cmds # <<>> /\ refCount[cmds[1]] = 1 /\ Owners(Cur, cmds[1]) = 0
    /\ Live(ops) # {}

Filtered == filteredInlineCompletionItems(Cur)

\* The stored id names a candidate of the filtered list.
Found == IndexOf(Filtered, selectedId) # 0

Max(a, b) == IF a >= b THEN a ELSE b

\* C11: the selected index (1-based here) lies in 1..max(1, n) for n filtered
\* candidates.  When the stored id is not in the filtered list, the index is
\* the first and computing it clears the id, so with a non-empty list one
\* candidate, the first, is selected; while the session displays its own
\* candidates the stored id is none or names a filtered candidate; and no step
\* makes an id that was stored but not found be found again: a candidate that
\* disappeared is not selected again when it reappears.
C11_SelectionFallsBackToFirst ==
    /\ [](/\ selectedInlineCompletionIndex(Cur) \in 1..Max(1, Len(Filtered))
          /\ ~Found =>
                /\ selectedInlineCompletionIndex(Cur) = 1
                /\ ResetSelection(Cur).selectedId = NoText
                /\ Filtered # <<>> => selectedInlineCompletion(Cur) = <<Filtered[1]>>
          /\ Found => selectedInlineCompletion(Cur)[1].text = selectedId
          /\ run.pc = "idle" /\ isActive /\ suggestItem = NoText /\ selectedId # NoText
                => Found)
    /\ [][selectedId # NoText /\ ~Found => selectedId' = NoText \/ ~Found']_vars

\* A candidate other than the first is selected, after the text has changed
\* and changed back.
C11_Witness ==
    /\ run.pc = "idle" /\ version = MaxVersion /\ doc = <<>>
    /\ selectedId # NoText /\ IndexOf(Filtered, selectedId) > 1

\* The calls whose answer would be stored as the session's own batch, with no
\* next() or previous() waiting for it.
Storable == {o \in Live(ops) : ~Stale(Cur, o) /\ o.sug = NoText /\ o.navs = <<>>}

\* C12 as stated: when the id of the selected candidate is in the filtered list
\* of the next batch, the selected index after that batch is stored is the
\* position of that id.
C12_SelectedCandidateIsTracked ==
    run.pc = "idle" /\ Filtered # <<>> /\ Unused(Cur) # {} =>
        \A o \in Storable, items \in NavLists :
            LET id == selectedInlineCompletion(Cur)[1].text
                r == storeAnswer(Cur, o, items)
                f == filteredInlineCompletionItems(r)
            IN  IndexOf(f, id) # 0 => selectedInlineCompletionIndex(r) = IndexOf(f, id)

\* C12, amended: when the stored id names the selected candidate and is in the
\* filtered list of the next batch, then after that batch is stored the id is
\* still stored and the selected index is its position there, whatever the
\* position and whatever the text is by then.
C12_StoredIdIsTracked ==
    run.pc = "idle" /\ selectedId # NoText /\ Found /\ Unused(Cur) # {} =>
        \A o \in Storable, items \in NavLists :
            LET r == storeAnswer(Cur, o, items)
                f == filteredInlineCompletionItems(r)
            IN  IndexOf(f, selectedId) # 0 =>
                    /\ r.selectedId = selectedId
                    /\ selectedInlineCompletionIndex(r) = IndexOf(f, selectedId)
                    /\ selectedInlineCompletion(r)[1].text = selectedId

\* A candidate was selected, the text has changed since, and the answer to
\* the call made for the new text can move the candidate.
C12_Witness ==
    /\ run.pc = "idle" /\ selectedId # NoText /\ Found /\ version > 0
    /\ \E o \in Storable, items \in NavLists :
            LET f == SelectSeq(items, LAMBDA c : isVisible(c, doc, behind, cursorLine))
            IN  IndexOf(f, selectedId) \notin {0, IndexOf(Filtered, selectedId)}

\* The source's selected index, which counts from 0.
Index0(s) == selectedInlineCompletionIndex(s) - 1

\* C13: with n >= 1 filtered candidates and selected index i, next() selects
\* index (i + 1) mod n and previous() selects index (i - 1 + n) mod n; next()
\* then previous(), and n times next(), select the original candidate again,
\* the pool being unchanged; with no candidate both leave the stored id
\* cleared.
C13_NextAndPreviousCycle ==
    run.pc = "idle" =>
        LET n == Len(Filtered)
            i == Index0(Cur)
            nx == moveSelection(Cur, 1)
            pv == moveSelection(Cur, -1)
            immediate == triggerExplicitly(Cur).awaited = <<>>
            t == triggerExplicitly(Cur)
            m == Len(filteredInlineCompletionItems(t))
        IN  /\ n >= 1 =>
                /\ Index0(nx) = (i + 1) % n
                /\ Index0(pv) = (i - 1 + n) % n
                /\ filteredInlineCompletionItems(nx) = Filtered
                /\ filteredInlineCompletionItems(pv) = Filtered
                /\ selectedInlineCompletion(moveSelection(nx, -1)) = selectedInlineCompletion(Cur)
                /\ selectedInlineCompletion(moveSelection(pv, 1)) = selectedInlineCompletion(Cur)
                /\ selectedInlineCompletion(Resume(Cur, [k \in 1..n |-> 1])) = selectedInlineCompletion(Cur)
                /\ selectedInlineCompletion(Resume(Cur, [k \in 1..n |-> -1])) = selectedInlineCompletion(Cur)
            /\ n = 0 => nx.selectedId = NoText /\ pv.selectedId = NoText
            /\ immediate /\ m >= 1 =>
                /\ Index0(deltaSelectedInlineCompletionIndex(Cur, 1)) = (Index0(t) + 1) % m
                /\ Index0(deltaSelectedInlineCompletionIndex(Cur, -1)) = (Index0(t) - 1 + m) % m
            /\ immediate /\ m = 0 =>
                /\ deltaSelectedInlineCompletionIndex(Cur, 1).selectedId = NoText
                /\ deltaSelectedInlineCompletionIndex(Cur, -1).selectedId = NoText

\* The last of three candidates is selected and the batch answers an explicit
\* request: next() wraps to the first, previous() goes to the second.
C13_Witness ==
    /\ run.pc = "idle" /\ Len(Filtered) = 3 /\ Index0(Cur) = 2
    /\ triggerExplicitly(Cur).awaited = <<>>
    /\ Index0(deltaSelectedInlineCompletionIndex(Cur, 1)) = 0
    /\ Index0(deltaSelectedInlineCompletionIndex(Cur, -1)) = 1

\* The id selected by moving by delta in list f from the candidate with id.
Moved(f, id, delta) ==
    LET i == IF IndexOf(f, id) = 0 THEN 1 ELSE IndexOf(f, id)
    IN  IF f = <<>> THEN NoText ELSE f[((i - 1 + delta + Len(f)) % Len(f)) + 1].text

RECURSIVE MovedAll(_, _, _)
MovedAll(f, id, deltas) ==
    IF deltas = <<>> THEN id
    ELSE MovedAll(f, Moved(f, id, Head(deltas)), Tail(deltas))

\* C14 as stated, first half: a next() or previous() that has to wait for its
\* explicit fetch leaves the stored id as it is.
C14_NothingBeforeTheFetchSettles ==
    run.pc = "idle" =>
        \A delta \in {1, -1} :
            triggerExplicitly(Cur).awaited # <<>> =>
                deltaSelectedInlineCompletionIndex(Cur, delta).selectedId = selectedId

\* C14, amended: a next() or previous() that has to wait for its explicit
\* fetch does not move the selection before the fetch settles: the stored id
\* stays, or is cleared when it names no filtered candidate; while such a call
\* waits the other steps do the same; and when the fetch settles the new id is
\* the one reached by the waiting moves in the filtered list as it is after
\* the fetch, also after stop(), a text change or another next() or
\* previous().
C14_SelectionMovesAfterTheFetch ==
    /\ [](run.pc = "idle" =>
            /\ \A delta \in {1, -1} :
                    LET r == deltaSelectedInlineCompletionIndex(Cur, delta)
                    IN  triggerExplicitly(Cur).awaited # <<>> =>
                            /\ r.selectedId = IF Found THEN selectedId ELSE NoText
                            /\ \E o \in r.ops : o.navs # <<>> /\ o.navs[Len(o.navs)] = delta
            /\ \A o \in ops, items \in NavLists :
                    o.navs # <<>> /\ (Unused(Cur) # {} \/ o.cancelled \/ Stale(Cur, o)) =>
                        LET stored == storeAnswer(Cur, o, items)
                            f == filteredInlineCompletionItems(stored)
                        IN  resolveFetch(Cur, o, items).selectedId
                                = MovedAll(f, stored.selectedId, o.navs))
    /\ [][/\ NavCount(Cur) > 0
          /\ NavCount(Cur)' >= NavCount(Cur)
          /\ ~(\E delta \in {1, -1} : DeltaSelectedInlineCompletionIndex(delta))
          => selectedId' \in {selectedId, NoText}]_vars

\* A next() or previous() waits for a fetch that stop() or a text change has
\* cancelled, another one waits for a later fetch, and the answer to the
\* first moves the selection.
C14_Witness ==
    /\ run.pc = "idle"
    /\ \E o \in ops, p \in ops, items \in NavLists :
            /\ o.navs # <<>> /\ o.cancelled /\ o.ver < version
            /\ p # o /\ p.navs # <<>>
            /\ resolveFetch(Cur, o, items).selectedId \notin {selectedId, NoText}

\* The edits and cursors _getEdits computes for the editor as it is.
Computed == getEdits(textModel, selections, completion)

\* The text of a line from a cursor to the end of the line.
TextAfter(pos) == Drop(textModel[pos.lineNumber], pos.column - 1)

\* The text the candidate's range replaces, and its part after the primary
\* cursor.
Replaced ==
    SubSeq(textModel[completion.range.lineNumber], completion.range.startColumn,
           completion.range.endColumn - 1)

ReplacedAfterCursor ==
    SubSeq(textModel[completion.range.lineNumber], selections[1].column,
           completion.range.endColumn - 1)

\* C15 as stated: the edit of a secondary cursor spans the longest common
\* prefix of the text after that cursor and the text the candidate's range
\* replaces, starting at the cursor, and inserts the candidate's text.
C15_SecondaryEditInsertsTheText ==
    edited = "no" =>
        \A i \in 2..Len(selections) :
            LET k == commonPrefixLength(Replaced, TextAfter(selections[i]))
            IN  /\ Computed.edits[i].range = fromPositions(selections[i], k)
                /\ Computed.edits[i].text = completion.text

\* C15, amended: the edit of a secondary cursor spans the longest common
\* prefix of the text after that cursor and the part of the replaced text that
\* is after the primary cursor, starting at the cursor, and inserts the
\* candidate's text without the characters that are before the primary cursor
\* in the range; this is the claim as stated when the primary cursor is at the
\* start of the range.
C15_SecondaryEditInsertsTheRest ==
    edited = "no" =>
        \A i \in 2..Len(selections) :
            LET k == commonPrefixLength(ReplacedAfterCursor, TextAfter(selections[i]))
                typed == selections[1].column - completion.range.startColumn
            IN  /\ Computed.edits[i].range = fromPositions(selections[i], k)
                /\ Computed.edits[i].text = Drop(completion.text, typed)
                /\ typed = 0 =>
                    /\ k = commonPrefixLength(Replaced, TextAfter(selections[i]))
                    /\ Computed.edits[i].text = completion.text

\* The primary cursor is inside the range, and the text after a secondary
\* cursor starts like the text replaced after the primary cursor.
C15_Witness ==
    /\ edited = "no" /\ Len(selections) >= 2
    /\ completion.range.startColumn < selections[1].column
    /\ selections[1].column < completion.range.endColumn
    /\ commonPrefixLength(ReplacedAfterCursor, TextAfter(selections[2])) >= 1
    /\ Computed.edits[2].range.endColumn > Computed.edits[2].range.startColumn

\* What accept() makes of the editor as it is.
Accepted == acceptEdits(textModel, selections, completion)

\* What is typed of the candidate: the text its range covers before the
\* primary cursor.
Typed ==
    SubSeq(textModel[completion.range.lineNumber], completion.range.startColumn,
           selections[1].column - 1)

\* The place of the typed text before a cursor.
TypedSpan(pos) == Range(pos.lineNumber, pos.column - Len(Typed), pos.column)

\* Every cursor is preceded on its line by the typed text, each cursor by its
\* own occurrence of it.
TypedBeforeEveryCursor ==
    /\ \A i \in 1..Len(selections) :
            /\ selections[i].column - 1 >= Len(Typed)
            /\ SubSeq(textModel[selections[i].lineNumber],
                      selections[i].column - Len(Typed), selections[i].column - 1) = Typed
    /\ \A i, j \in 1..Len(selections) :
            i # j => ~Overlap(TypedSpan(selections[i]), TypedSpan(selections[j]))

Alone(i) ==
    \A j \in 1..Len(selections) : j # i => selections[j].lineNumber # selections[i].lineNumber

C17_EditsNeverOverlap ==
    edited = "no" => ~Overlapping(Computed.edits)

AllEdits == Computed.edits \o completion.additionalTextEdits

\* How far the edits that the editor applies before edit i on its line move
\* what follows them.
RECURSIVE ShiftBy(_, _)
ShiftBy(i, js) ==
    IF js = {} THEN 0
    ELSE LET j == CHOOSE x \in js : TRUE
             e == AllEdits[j]
             first == \/ compareRangesUsingEnds(e.range, AllEdits[i].range) < 0
                      \/ compareRangesUsingEnds(e.range, AllEdits[i].range) = 0 /\ j < i
             by == IF e.range.lineNumber = AllEdits[i].range.lineNumber /\ first
                   THEN Len(e.text) - (e.range.endColumn - e.range.startColumn)
                   ELSE 0
         IN  by + ShiftBy(i, js \ {j})

\* The end of the text of edit i in the document after the edits.
EndOfInsertedText(i) ==
    Position(AllEdits[i].range.lineNumber,
             AllEdits[i].range.startColumn
                + ShiftBy(i, (1..Len(AllEdits)) \ {i}) + Len(AllEdits[i].text))

\* C19: after the plain path of accept() the document is the result of
\* applying the computed edits and the candidate's additional edits, and the
\* i-th cursor is at the end of the text inserted by edit i in that document,
\* which has that text before the cursor.
C19_CursorsAfterTheInsertedTexts ==
    edited = "no" /\ Accepted.ok =>
        /\ Accepted.textModel = applyEdits(textModel, AllEdits)
        /\ Len(Accepted.selections) = Len(selections)
        /\ \A i \in 1..Len(selections) :
                LET cursor == Accepted.selections[i]
                    text == Computed.edits[i].text
                IN  /\ cursor = EndOfInsertedText(i)
                    /\ cursor.column - 1 >= Len(text)
                    /\ SubSeq(Accepted.textModel[cursor.lineNumber],
                              cursor.column - Len(text), cursor.column - 1) = text

\* W of the claim: the length of the first word when the text starts with
\* it, else where the first word starts, else the length of the text.
UntilWord ==
    LET words == {i \in 1..Len(ghostText) : ghostText[i] \in wordDefinition}
        others == {i \in 1..Len(ghostText) : ghostText[i] \notin wordDefinition}
        Least(S) == CHOOSE i \in S : \A j \in S : i <= j
    IN  IF words = {} THEN Len(ghostText)
        ELSE IF 1 \in words THEN (IF others = {} THEN Len(ghostText) ELSE Least(others) - 1)
        ELSE Least(words) - 1

\* S of the claim: the end of the first run of white space; beyond the text
\* when there is none.
UntilSpace ==
    LET spaces == {i \in 1..Len(ghostText) : ghostText[i] \in Whitespace}
        first == CHOOSE i \in spaces : \A j \in spaces : i <= j
        after == {i \in first..Len(ghostText) : ghostText[i] \notin Whitespace}
    IN  IF spaces = {} THEN Len(ghostText) + 1
        ELSE IF after = {} THEN Len(ghostText)
        ELSE (CHOOSE i \in after : \A j \in after : i <= j) - 1

Min(a, b) == IF a <= b THEN a ELSE b

\* C20: for a ghost text that is not empty the boundary of acceptNextWord is
\* the smaller of W and S, it is between 1 and the length of the text, and
\* the text committed is the text up to it; of "hello world" with \w+ it is
\* "hello".
C20_NextWordBoundary ==
    ghostText # <<>> =>
        LET until == getAcceptUntilIndex(ghostText, wordDefinition)
        IN  /\ until = Min(UntilWord, UntilSpace)
            /\ until \in 1..Len(ghostText)
            /\ partialText(ghostText, wordDefinition) = Take(ghostText, until)
            /\ ghostText = HelloWorld /\ wordDefinition = Letters
                    => partialText(ghostText, wordDefinition) = <<"h", "e", "l", "l", "o">>

\* acceptNextWord has committed "hello" of "hello world".
C20_Witness ==
    /\ committed = <<"h", "e", "l", "l", "o">>
    /\ ghostText = <<" ", "w", "o", "r", "l", "d">>
    /\ wordDefinition = Letters

\* The places of the newlines of the ghost text.
NewLines == {i \in 1..Len(ghostText) : ghostText[i] = NewLine}

\* C21: the boundary of acceptNextLine is the index just after the first
\* newline of the text, so that the committed prefix ends with that newline
\* and has no other; without a newline the boundary is the length of the
\* text.
C21_NextLineBoundary ==
    ghostText # <<>> =>
        LET until == getAcceptUntilIndexOfLine(ghostText)
            prefix == substring(ghostText, 0, until)
        IN  /\ NewLines = {} => until = Len(ghostText) /\ prefix = ghostText
            /\ NewLines # {} =>
                /\ until \in NewLines
                /\ \A i \in NewLines : until <= i
                /\ prefix = Take(ghostText, until)
                /\ prefix[Len(prefix)] = NewLine
                /\ \A i \in 1..(Len(prefix) - 1) : prefix[i] # NewLine

\* acceptNextLine has committed a line with its newline and left the next.
C21_Witness ==
    /\ committed = <<"h", ".", NewLine>>
    /\ ghostText = <<"h">>

----------------------------------------------------------------------------
(* Partial accepts in the session *)

\* The state the view shows when the suggest widget has no item selected.
Shown == state(Cur, FALSE)

\* A candidate is displayed with a ghost text that is not empty.
Displayed == run.pc = "idle" /\ Shown.def /\ Shown.cand # <<>> /\ Shown.ghosts[1] # <<>>

\* The boundaries in the first part of the displayed ghost text.
ShownBoundaries == 1..Len(Shown.parts[1].text)

\* _acceptNext falls back to accept() for the displayed candidate and boundary k.
FallsBack(k) ==
    \/ Shown.cand[1].snippet
    \/ Shown.cand[1].filterText # Shown.cand[1].text
    \/ k = Len(Shown.parts[1].text) /\ Len(Shown.parts) = 1

\* C22: for a displayed candidate, acceptNextWord()/acceptNextLine() is the
\* call of accept() (the same text change, the same reactions, and the same
\* steps to come: the reset of the session and the command, and no call of
\* the partial-accept hook) exactly when the candidate has a snippet, or a
\* filter text that differs from its insertion text, or the boundary is the end
\* of the first part of a ghost text of one part; in every other case it takes
\* a reference and starts the partial edit, and nothing of accept() happens.
C22_FullAcceptExactlyWhenDegenerate ==
    Displayed =>
        \A k \in ShownBoundaries :
            LET r == acceptNextCall(Cur, "bound", FALSE, k)
                full == acceptCall(Cur, "bound", FALSE)
            IN  /\ full.run.pc = "edited" /\ full.doc = Shown.cand[1].text
                /\ full.hooks = <<>>
                /\ FallsBack(k) <=> r = full
                /\ ~FallsBack(k) =>
                        /\ r.run.pc = "partial" /\ r.run.k = k
                        /\ r.doc = doc /\ r.behind = behind /\ r.version = version
                        /\ r.isActive = isActive /\ r.batch = batch /\ r.cmds = cmds

\* _acceptNext has started a partial edit for a boundary at the end of the
\* first part of a ghost text of two parts.
C22_Witness ==
    /\ run.pc = "partial" /\ behind # <<>>
    /\ run.col = Len(doc) + 1
    /\ Len(computeGhostText(run.cand[1].text, doc, behind).parts) = 2
    /\ run.k = Len(computeGhostText(run.cand[1].text, doc, behind).text)

\* The line from the column col on.
LineFrom(col) == Drop(doc \o behind, col - 1)

HookCalls == partialRelease(Cur).hooks

\* C24: a partial accept that is not a call of accept() calls the provider's
\* partial-accept hook, when the provider has one, exactly once and after the
\* edit was applied (not before, and not when the edit threw), with the length
\* of the text the line then has from the start of the candidate's range to
\* the cursor: what was there of the candidate before and what was committed.
C24_HookGetsTheAcceptedLength ==
    /\ run.pc = "partial" =>
            \A throws \in BOOLEAN : partialEdit(Cur, throws).hooks = <<>>
    /\ run.pc = "thrown" => HookCalls = <<>>
    /\ run.pc = "committed" =>
            HookCalls = IF run.cand[1].hook THEN <<[acceptedCharacters |-> Len(doc)]>>
                        ELSE <<>>

\* C24 as stated: the hook is called with the number of characters that the
\* partial accept committed.
C24_HookGetsTheCommittedCount ==
    run.pc = "committed" /\ run.cand[1].hook =>
        HookCalls = <<[acceptedCharacters |-> run.k]>>

\* The edit of a partial accept has been applied on a line that had a part of
\* the candidate's text already, and the provider has the hook.
C24_Witness ==
    /\ run.pc = "committed" /\ run.cand[1].hook
    /\ run.col > 1 /\ Len(doc) = run.col - 1 + run.k

\* No snippet, and the filter text is the insertion text.
Plain(c) == ~c.snippet /\ c.filterText = c.text

\* C25: from a displayed plain candidate with a ghost text of one part, a call
\* of acceptNextWord() whose boundary is the end of the ghost text is accept(),
\* which leaves the candidate's text in the line; every other call commits at
\* least one character and leaves the same candidate displayed with a ghost text
\* of one part that is the old one without the committed characters, from
\* where accept() leaves the same text as accept() from the start state.  So
\* repeated calls end, after at most as many calls as the ghost text has
\* characters, with accept(); after its reset nothing is displayed, and a call
\* of acceptNextWord() with nothing displayed returns and changes nothing.
C25_RepeatedAcceptNextWordIsAccept ==
    /\ Displayed /\ Plain(Shown.cand[1]) /\ Len(Shown.parts) = 1 =>
            \A k \in ShownBoundaries :
                \E r1 \in {acceptNextCall(Cur, "bound", FALSE, k)},
                   full \in {acceptCall(Cur, "bound", FALSE)} :
                    IF k = Len(Shown.parts[1].text)
                    THEN r1 = full /\ r1.doc = Shown.cand[1].text /\ r1.behind = <<>>
                    ELSE \E r \in {partialRelease(partialEdit(r1, FALSE))} :
                         \E next \in {state(r, FALSE)} :
                            /\ Len(r.doc) >= Len(doc) + k
                            /\ next.def /\ next.cand = Shown.cand /\ Len(next.parts) = 1
                            /\ next.parts[1].text = Drop(Shown.parts[1].text, k)
                            /\ acceptState(r, next).doc = full.doc
                            /\ acceptState(r, next).behind = full.behind
    /\ run.pc = "reset" => ~Shown.def /\ doc = run.cand[1].text
    /\ run.pc = "idle" /\ ~(Shown.def /\ Shown.ghosts[1] # <<>>) =>
            \A k \in PartialBoundaries :
                acceptNextCall(Cur, "bound", FALSE, k) = Outcome(Cur, "return")

\* The second call in a row commits the second character of a ghost text of
\* three: the text was changed twice and is two characters of the candidate.
C25_Witness ==
    /\ run.pc = "committed" /\ run.cand = <<CandD>> /\ behind = <<>>
    /\ version = 2 /\ doc = <<"a", "b">> /\ run.k = 1

----------------------------------------------------------------------------
(* The filtered list and the cursor *)

\* C26: in every reachable state every candidate of the filtered list passes
\* the visibility check against the line as it is and the primary cursor as it
\* is, also after the cursor has moved with no change of the text.
C26_FilteredListIsVisibleAtTheCursor ==
    \A i \in 1..Len(filteredInlineCompletionItems(Cur)) :
        isVisible(filteredInlineCompletionItems(Cur)[i], doc, behind, cursorLine)

----------------------------------------------------------------------------
(* The item to preserve *)

\* The item every fetch of the step that led to r was given, against the
\* selected candidate in r: it when `preserved` or when it is forward-stable,
\* none otherwise.
KeepsSelected(r, preserved) ==
    \A i \in 1..Len(r.fetches) :
        r.fetches[i].keep =
            IF \/ preserved
               \/ selectedInlineCompletion(r) # <<>> /\ selectedInlineCompletion(r)[1].fs
            THEN selectedInlineCompletion(r) ELSE <<>>

\* C27: a fetch caused by a change of the text whose reason is Undo, Redo or
\* AcceptWord (the edit of a partial accept) is given the selected candidate as
\* the item to preserve; a fetch caused by a change with another reason is
\* given none, unless the selected candidate is forward-stable.
C27_PreservedExactlyForTheListedReasons ==
    /\ \A reason \in {"Undo", "Redo", "Other"}, typed \in BOOLEAN, c \in Chars :
            run.pc = "idle" /\ CanEdit(Cur, reason, typed, c)
                => KeepsSelected(userEdit(Cur, reason, typed, c), reason # "Other")
    /\ run.pc = "partial" => KeepsSelected(partialEdit(Cur, FALSE), TRUE)

\* A candidate that is not forward-stable is displayed and a character it goes
\* on with enters the line: as a redo the change fetches with that candidate to
\* preserve, as a plain edit it fetches with none.
C27_Witness ==
    /\ run.pc = "idle"
    /\ Shown.def /\ ~Shown.cand[1].fs
    /\ \E c \in Chars :
            /\ CanEdit(Cur, "Redo", TRUE, c)
            /\ selectedInlineCompletion(userEdit(Cur, "Redo", TRUE, c)) = Shown.cand
            /\ userEdit(Cur, "Redo", TRUE, c).fetches
                    = <<[kind |-> Automatic, keep |-> Shown.cand]>>
            /\ userEdit(Cur, "Other", TRUE, c).fetches
                    = <<[kind |-> Automatic, keep |-> <<>>]>>

----------------------------------------------------------------------------
(* Seeding with the preview batch *)

\* r is the state after a transaction that began in the current state with a
\* preview batch and in which _fetchInlineCompletions ran to its fetch with no
\* suggest item selected: the preview batch is gone, and the own batch is the
\* preview batch exactly when there was no own batch or an older one.
Seeded(r) ==
    r.fetches # <<>> /\ r.suggestItem = NoText
        => /\ r.swBatch = NoBatch
           /\ r.batch = IF batch.id = 0 \/ swBatch.ver > batch.ver THEN swBatch ELSE batch
           /\ r.batch.ver >= batch.ver

\* C28: when a preview batch exists and no suggest item is selected, the
\* computation of _fetchInlineCompletions replaces the own batch by the preview
\* batch if and only if there is no own batch or the preview batch has the
\* strictly greater version stamp; it clears the preview batch in either case,
\* in the same transaction; the version stamp of the own batch is never lowered.
C28_SeededExactlyWhenNewer ==
    swBatch.id # 0 /\ run.pc = "idle"
        => /\ Seeded(selectSuggestItem(Cur, NoText))
           /\ Seeded(trigger(Cur))
           /\ Seeded(triggerExplicitly(Cur))
           /\ \A reason \in {"Undo", "Redo", "Other"}, typed \in BOOLEAN, c \in Chars :
                    CanEdit(Cur, reason, typed, c) => Seeded(userEdit(Cur, reason, typed, c))

\* The own batch is older than the preview batch and the suggest widget
\* deselects its item: the preview batch becomes the own batch and is cleared.
C28_Witness ==
    /\ run.pc = "idle" /\ isActive /\ suggestItem # NoText
    /\ swBatch.id # 0 /\ batch.id # 0 /\ swBatch.ver > batch.ver
    /\ selectSuggestItem(Cur, NoText).fetches # <<>>
    /\ selectSuggestItem(Cur, NoText).batch = swBatch
    /\ selectSuggestItem(Cur, NoText).swBatch = NoBatch

----------------------------------------------------------------------------
(* Seeding and the provider *)

\* r is the state after a transaction that began in the current state: the own
\* batch has become the preview batch.
Adopted(r) ==
    /\ swBatch.id # 0 /\ r.suggestItem = NoText /\ r.fetches # <<>>
    /\ batch.id = 0 \/ swBatch.ver > batch.ver
    /\ r.batch = swBatch

\* The provider calls the transaction has issued.
Issued(r) == {x \in r.ops : ~x.cancelled} \ ops

\* C29: an update in which the model adopts the preview batch as its own batch
\* issues no provider call.
C29_NoProviderCallWhenAdopting ==
    run.pc = "idle"
        => /\ Adopted(selectSuggestItem(Cur, NoText))
                => Issued(selectSuggestItem(Cur, NoText)) = {}
           /\ Adopted(trigger(Cur)) => Issued(trigger(Cur)) = {}

----------------------------------------------------------------------------
(* Transactions *)

\* Every run of the derived values and autoruns in the step that led to r has
\* found the session stopped and the source cleared.
SeenStopped(r) ==
    /\ r.observed # <<>>
    /\ \A i \in 1..Len(r.observed) :
            ~r.observed[i].isActive /\ r.observed[i].batch = 0 /\ r.observed[i].swBatch = 0

\* Every run in the step that led to r has found the session active and the
\* force signal set, and no fetch of the step is other than explicit.
SeenForced(r) ==
    /\ r.observed # <<>>
    /\ \A i \in 1..Len(r.observed) :
            r.observed[i].isActive /\ r.observed[i].force = Explicit
    /\ \A i \in 1..Len(r.fetches) : r.fetches[i].kind = Explicit

\* C30: the two writes of stop() (the flag reset, the source cleared), of the
\* reset of accept() and of triggerExplicitly() (the flag set, the force signal)
\* are atomic: no run of a derived value or autorun finds only one of the two
\* writes made.
C30_BothWritesSeenTogether ==
    /\ run.pc = "idle" => SeenStopped(stop(Cur)) /\ SeenForced(triggerExplicitly(Cur))
    /\ run.pc = "refd" => SeenStopped(acceptReset(Cur))

\* The session is active and has a batch, so that each write of stop() alone
\* would be seen; the derived values and autoruns run once, after both.
C30_Witness ==
    /\ run.pc = "idle" /\ isActive /\ batch.id # 0
    /\ Len(stop(Cur).observed) = 1
    /\ ~stop(Cur).isActive /\ stop(Cur).batch = NoBatch

----------------------------------------------------------------------------
(* The item-shown hook *)

\* The semantic id of the candidate displayed in s, <<>> when there is none.
DisplayedId(s) == SemanticIdOf(state(s, FALSE).cand)

\* r is the state after one transaction that began in the current state: the
\* hook has been called once, for the candidate displayed in r, when the
\* displayed semantic id has changed to a new value, and not at all otherwise.
ShownOnChange(r) ==
    r.shown = IF DisplayedId(r) # DisplayedId(Cur) /\ DisplayedId(r) # <<>>
              THEN state(r, FALSE).cand ELSE <<>>

\* C31: handleItemDidShow is called once each time the displayed semantic id
\* changes to a new value, and it is not called while the same candidate stays
\* displayed over a recomputation of the state: an answer of the provider, a
\* change of the text, a partial accept, a move of the cursor, trigger and stop.
C31_HookOncePerDisplayedCandidate ==
    /\ lastItem = DisplayedId(Cur)
    /\ run.pc = "idle" =>
            /\ \A o \in ops, items \in PartialLists :
                    ~Stale(Cur, o) /\ Unused(Cur) # {} => ShownOnChange(storeAnswer(Cur, o, items))
            /\ \A reason \in {"Undo", "Redo", "Other"}, typed \in BOOLEAN, c \in Chars :
                    CanEdit(Cur, reason, typed, c) => ShownOnChange(userEdit(Cur, reason, typed, c))
            /\ \A lineNumber \in CursorLines \ {cursorLine} :
                    ShownOnChange(moveCursor(Cur, lineNumber))
            /\ ShownOnChange(trigger(Cur))
            /\ ShownOnChange(stop(Cur))
    /\ run.pc = "partial" => ShownOnChange(partialEdit(Cur, FALSE))

\* A candidate is displayed and the provider is about to answer a fetch: with
\* the same candidate the hook is not called, with another candidate first it
\* is called once, for that one.
C31_Witness ==
    /\ run.pc = "idle" /\ DisplayedId(Cur) # <<>>
    /\ \E o \in ops, items \in PartialLists :
            /\ ~Stale(Cur, o) /\ Unused(Cur) # {}
            /\ DisplayedId(storeAnswer(Cur, o, items)) = DisplayedId(Cur)
            /\ storeAnswer(Cur, o, items).shown = <<>>
    /\ \E o \in ops, items \in PartialLists :
            /\ ~Stale(Cur, o) /\ Unused(Cur) # {}
            /\ DisplayedId(storeAnswer(Cur, o, items)) \notin {<<>>, DisplayedId(Cur)}
            /\ Len(storeAnswer(Cur, o, items).shown) = 1

----------------------------------------------------------------------------
(* accept() of a snippet *)

\* C32: for a candidate with a snippet accept() pushes an undo stop, deletes the
\* candidate's range and applies the additional edits in one call of
\* executeEdits, sets the cursor to the start of the snippet's range and has the
\* snippet inserted with no undo stop before, in this order; the plain edits of
\* the state are not applied; the reset of the session follows as it does for
\* a plain text.
C32_SnippetIsInsertedByTheController ==
    /\ run.pc = "idle" /\ Shown.def /\ Shown.cand # <<>> /\ Shown.ghosts[1] # <<>>
        /\ Shown.cand[1].snippet
            => /\ acceptCall(Cur, "bound", FALSE).calls
                    = << [op |-> "pushUndoStop", edits |-> <<>>, undoStop |-> TRUE],
                         [op |-> "executeEdits",
                          edits |-> <<[lineNumber |-> RangeLine, startColumn |-> 1,
                                       endColumn |-> Len(doc) + 1, text |-> <<>>]>>
                                    \o Shown.cand[1].additionalTextEdits,
                          undoStop |-> FALSE],
                         [op |-> "setPosition",
                          edits |-> <<[lineNumber |-> RangeLine, startColumn |-> 1,
                                       endColumn |-> 1, text |-> <<>>]>>,
                          undoStop |-> FALSE],
                         [op |-> "insert",
                          edits |-> <<[lineNumber |-> RangeLine, startColumn |-> 1,
                                       endColumn |-> 1, text |-> Shown.cand[1].text]>>,
                          undoStop |-> FALSE] >>
               /\ acceptCall(Cur, "bound", FALSE).doc = Shown.cand[1].text
               /\ acceptCall(Cur, "bound", FALSE).run.pc = "edited"
    /\ run.pc = "refd" /\ run.cand[1].snippet
            => /\ ~acceptReset(Cur).isActive
               /\ acceptReset(Cur).batch = NoBatch /\ acceptReset(Cur).swBatch = NoBatch
               /\ acceptReset(Cur).run.pc = "reset"

\* A candidate with a snippet and an additional edit is displayed behind a
\* typed character, and accept() makes its four calls on the editor.
C32_Witness ==
    /\ run.pc = "idle" /\ doc # <<>> /\ Shown.def /\ Shown.cand # <<>>
    /\ Shown.cand[1].snippet /\ Shown.cand[1].additionalTextEdits # <<>>
    /\ Shown.edits = <<Shown.cand[1].text>>
    /\ Len(acceptCall(Cur, "bound", FALSE).calls) = 4
    /\ acceptCall(Cur, "bound", FALSE).version = version + 2

----------------------------------------------------------------------------
(* No fetch without a reason to update *)

\* shouldUpdate of _fetchInlineCompletions is false in s.
NoUpdate(s) == ~s.isActive /\ ~(s.enabled /\ s.suggestItem # NoText)

\* The step that led to r has asked the source for nothing.
NothingFetched(r) == r.fetches = <<>> /\ Issued(r) = {}

\* The step that led to r has ended the reason to update: what was in flight
\* is cancelled, and the batches are as they were.
OnlyCancelled(r) ==
    ~NoUpdate(Cur) /\ NoUpdate(r)
        => /\ NothingFetched(r)
           /\ Live(r.ops) = {}
           /\ r.batch = batch /\ r.swBatch = swBatch

\* C33: while the session is not active and no suggest item is selected with
\* the model enabled, no provider call is in flight and none is issued,
\* whatever change of the text, move of the cursor or force signal occurs; when
\* the session comes into that condition while a call is in flight, the call is
\* cancelled, and the cancellation alone leaves the stored batches as they are.
C33_NoFetchWithoutReasonToUpdate ==
    /\ NoUpdate(Cur) => Live(ops) = {}
    /\ run.pc = "idle" /\ NoUpdate(Cur)
            => /\ \A reason \in Reasons, typed \in BOOLEAN, c \in Chars :
                    CanEdit(Cur, reason, typed, c)
                        => NothingFetched(userEdit(Cur, reason, typed, c))
               /\ \A lineNumber \in CursorLines : NothingFetched(moveCursor(Cur, lineNumber))
               /\ NothingFetched(React(Cur, {<<"force", Explicit>>}))
    /\ run.pc = "idle"
            => /\ OnlyCancelled(setEnabled(Cur))
               /\ OnlyCancelled(selectSuggestItem(Cur, NoText))

\* A batch is stored and a provider call is in flight for the suggest item
\* when the model is disabled or the item deselected: the call is cancelled.
C33_Witness ==
    /\ run.pc = "idle" /\ ~NoUpdate(Cur)
    /\ Live(ops) # {} /\ swBatch.id # 0
    /\ NoUpdate(setEnabled(Cur))
    /\ Live(setEnabled(Cur).ops) = {} /\ setEnabled(Cur).ops # {}
    /\ setEnabled(Cur).swBatch = swBatch

----------------------------------------------------------------------------
(* Augmenting the suggest item *)

\* The candidate c augments the edit of the suggest item in s.
Augmenting(s, c) ==
    augments(removeCommonPrefix(c.text, s.doc), removeCommonPrefix(s.suggestItem, s.doc))

\* The inline completion of the state of s is the first of `considered` that
\* augments the suggest item, and undefined when none does.
FirstAugmenting(s, considered) ==
    \A pv \in BOOLEAN :
        IF \E i \in 1..Len(considered) : Augmenting(s, considered[i])
        THEN /\ state(s, pv).def
             /\ \E i \in 1..Len(considered) :
                    /\ state(s, pv).cand = <<considered[i]>>
                    /\ Augmenting(s, considered[i])
                    /\ \A j \in 1..(i - 1) : ~Augmenting(s, considered[j])
        ELSE state(s, pv).cand = <<>>

\* C34: with a suggest item selected, the candidate that augments it is the
\* first in the provider's order that does; the candidates considered are those
\* of the preview batch when there is one, and else the selected inline
\* completion alone, whichever candidate of the own batch is selected.
C34_FirstAugmentingCandidateWins ==
    suggestItem # NoText
        => IF swBatch.id # 0 THEN FirstAugmenting(Cur, swBatch.items)
           ELSE /\ FirstAugmenting(Cur, selectedInlineCompletion(Cur))
                /\ run.pc = "idle"
                    => FirstAugmenting(moveSelection(Cur, 1),
                                       selectedInlineCompletion(moveSelection(Cur, 1)))

\* Both candidates of the preview batch augment the suggest item and the
\* longer one is the first: it is the one displayed.
C34_Witness ==
    /\ suggestItem # NoText /\ swBatch.id # 0
    /\ Len(swBatch.items) = 2
    /\ \A i \in 1..2 : Augmenting(Cur, swBatch.items[i])
    /\ Len(swBatch.items[1].text) > Len(swBatch.items[2].text)
    /\ state(Cur, FALSE).cand = <<swBatch.items[1]>>

----------------------------------------------------------------------------
(* The shape of the state *)

\* C35: a state that is defined has a primary ghost text, and one ghost text
\* and one edit for the cursor of the session; with no suggest item selected it
\* is defined only while the session is active and a candidate is selected.
C35_DefinedStateHasItsGhostTexts ==
    \A pv \in AnyPreview :
        state(Cur, pv).def
            => /\ Len(state(Cur, pv).ghosts) = 1
               /\ Len(state(Cur, pv).edits) = 1
               /\ suggestItem = NoText => isActive /\ selectedInlineCompletion(Cur) # <<>>

----------------------------------------------------------------------------
(* isAcceptingPartially *)

\* Every run of the derived values and autoruns in the step that led to r has
\* found the flag as `flag`.
SeenAccepting(r, flag) ==
    \A i \in 1..Len(r.observed) : r.observed[i].accepting = flag

\* C36: isAcceptingPartially is true exactly while a partial accept that is
\* not a full accept applies its edit, so the change of the text it makes is
\* seen with the flag set; it is false in every other state, during a full
\* accept, and after a partial accept whose edit has thrown.
C36_FlagSetExactlyDuringThePartialEdit ==
    /\ accepting <=> run.pc = "partial"
    /\ run.pc = "partial"
            => /\ partialEdit(Cur, FALSE).observed # <<>>
               /\ SeenAccepting(partialEdit(Cur, FALSE), TRUE)
               /\ ~partialEdit(Cur, FALSE).accepting
               /\ ~partialEdit(Cur, TRUE).accepting
    /\ run.pc = "idle"
            => /\ SeenAccepting(acceptCall(Cur, "bound", FALSE), FALSE)
               /\ ~acceptCall(Cur, "bound", FALSE).accepting
               /\ \A k \in PartialBoundaries :
                    Displayed /\ FallsBack(k)
                        => /\ SeenAccepting(acceptNextCall(Cur, "bound", FALSE, k), FALSE)
                           /\ ~acceptNextCall(Cur, "bound", FALSE, k).accepting

\* A partial accept is about to apply its edit; the text changes with the flag
\* set and the flag is reset afterwards.
C36_Witness ==
    /\ run.pc = "partial" /\ accepting
    /\ partialEdit(Cur, FALSE).version = version + 1
    /\ Len(partialEdit(Cur, FALSE).observed) = 1
    /\ partialEdit(Cur, FALSE).observed[1].accepting
    /\ ~partialEdit(Cur, FALSE).accepting

----------------------------------------------------------------------------
(* The end of a partial accept that is a full accept *)

\* accept(), called by _acceptNext for the boundary k, as far as it runs before
\* it waits: the edits, the reference, the reset and the start of the command.
FallbackStarted(k) ==
    acceptCommand(acceptReset(acceptAddRef(acceptNextCall(Cur, "bound", FALSE, k))))

\* C37: when acceptNextWord()/acceptNextLine() is a call of accept() (a
\* snippet, a filter text that differs from the insertion text, a boundary at
\* the end of a ghost text of one part), its promise settles only after that
\* of accept(): while the command of the candidate is executing, the partial
\* accept is waiting for accept().
C37_FallbackIsAwaited ==
    Displayed =>
        \A k \in ShownBoundaries :
            FallsBack(k) /\ Len(FallbackStarted(k).cmds) > Len(cmds)
                => acceptNextAwaits(Shown, k) = "accept"

----------------------------------------------------------------------------
(* A candidate is accepted once *)

\* The call that led from s to r has applied no edit and started no command.
NothingApplied(s, r) ==
    /\ r.doc = s.doc /\ r.behind = s.behind /\ r.version = s.version
    /\ r.calls = <<>>
    /\ r.cmds = s.cmds
    /\ r.run = Idle

\* accept(), acceptNextWord() and acceptNextLine() on the bound editor in s.
NothingAcceptedIn(s) ==
    \A pv \in AnyPreview :
        /\ NothingApplied(s, acceptCall(s, "bound", pv))
        /\ \A k \in 1..LongestText : NothingApplied(s, acceptNextCall(s, "bound", pv, k))

\* C38: the edits of a displayed candidate are applied at most once: once
\* accept() has applied them and reset the session, another accept(),
\* acceptNextWord() or acceptNextLine() applies no edit and starts no command
\* until a fetch has stored a batch, also while the command of the first
\* accept() is executing and also after the user has undone the edits.
C38_AcceptedAtMostOnce ==
    /\ run.pc = "reset"
            => /\ NothingAcceptedIn(acceptCommand(Cur))
               /\ \A reason \in {"Undo", "Other"} :
                    CanEdit(acceptCommand(Cur), reason, FALSE, "a")
                        => NothingAcceptedIn(userEdit(acceptCommand(Cur), reason, FALSE, "a"))
    /\ run.pc = "idle" /\ batch.id = 0 /\ swBatch.id = 0 => NothingAcceptedIn(Cur)

\* accept() has applied the edits of a candidate that augments the selected
\* suggest item and has reset the session; its command is about to start, and
\* the suggest item is selected still.
C38_Witness ==
    /\ run.pc = "reset" /\ run.cand[1].cmd
    /\ suggestItem # NoText /\ enabled
    /\ Len(acceptCommand(Cur).cmds) = Len(cmds) + 1
    /\ acceptCall(acceptCommand(Cur), "bound", FALSE).outcome = "return"
    /\ CanEdit(acceptCommand(Cur), "Undo", FALSE, "a")
    /\ acceptCall(userEdit(acceptCommand(Cur), "Undo", FALSE, "a"), "bound", FALSE).outcome
            = "return"

\* The service after setActiveInstance(a).
Activated(a) == setActiveInstance(Service, <<a>>)

\* C39: after setActiveInstance(A) with A a managed instance, activeInstance
\* still returns A when another instance is registered or removed (its
\* editor closed, or detachInstance), and returns undefined, never another
\* instance, when A itself is removed by an editor close or by
\* detachInstance.
C39_ActiveInstanceFollowsTheInstance ==
    \A a \in Managed(Service) :
        /\ \A other \in TerminalInstances \ Managed(Service) :
              activeInstance(registerInstance(Activated(a), other)) = <<a>>
        /\ \A other \in Managed(Service) \ {a} :
              /\ activeInstance(onDidCloseEditor(Activated(a), other)) = <<a>>
              /\ activeInstance(detachInstance(Activated(a), other)) = <<a>>
        /\ activeInstance(onDidCloseEditor(Activated(a), a)) = <<>>
        /\ activeInstance(detachInstance(Activated(a), a)) = <<>>

====
